---- MODULE Spec2Model ----
(***************************************************************************)
(* Tenant-scoped ownership and relationship engine of attendify-backend.   *)
(*                                                                         *)
(* The store is the MySQL tables USER, STUDENT, COURSE, COURSE_SCHEDULE    *)
(* and STUDENT_COURSE, each a set of rows.  A request is the whole Express *)
(* pipeline of one route: authMiddleware, the express-validator chain, the *)
(* controller and the service with the model calls it makes.               *)
(*                                                                         *)
(* JavaScript values: an id is a positive integer, Null is SQL NULL / JS   *)
(* null and Undefined is a field absent from the JSON body.                *)
(*                                                                         *)
(* Requests are served one at a time: a client sends a request, the        *)
(* handler runs to its response, the client reads the response (last) and  *)
(* the next request is sent.  last keeps the request, the response and the *)
(* tables as they were when the request arrived.  A run sends student      *)
(* requests or course requests (workload); the two kinds meet only in      *)
(* STUDENT_COURSE.                                                         *)
(*                                                                         *)
(* The schema is created by hand from the SQL of the repository's notes.   *)
(* The unique index on STUDENT(university_id, student_number) is part of   *)
(* them, the application never creates it: a deployment has it or not      *)
(* (IDX_STUDENT_NUMBER_UNIVERSITY).  COURSE has no column for the          *)
(* university and so no index on (university, course_code).                *)
(***************************************************************************)
EXTENDS Integers, Sequences, FiniteSets, TLC

Null == 0
Undefined == -1
UndefinedStr == "undefined"

\* rows the auto-increment columns hand out before creates stop being sent
MaxStudents == 2
MaxCourses == 2

UserIds == {1, 2, 3}
Universities == {1, 2}
StudentNumbers == {"1001", "2001"}
CourseCodes == {"CS101", "CS201"}

VARIABLES USER, USER_VERIFICATION, STUDENT, COURSE, COURSE_SCHEDULE, STUDENT_COURSE,
          nextStudentId, nextCourseId, IDX_STUDENT_NUMBER_UNIVERSITY,
          NOW, workload, last, calls

vars == <<USER, USER_VERIFICATION, STUDENT, COURSE, COURSE_SCHEDULE, STUDENT_COURSE,
          nextStudentId, nextCourseId, IDX_STUDENT_NUMBER_UNIVERSITY,
          NOW, workload, last, calls>>

\* the tables, as one value a handler reads and returns
db == [USER |-> USER, USER_VERIFICATION |-> USER_VERIFICATION,
       STUDENT |-> STUDENT, COURSE |-> COURSE,
       COURSE_SCHEDULE |-> COURSE_SCHEDULE, STUDENT_COURSE |-> STUDENT_COURSE,
       nextStudentId |-> nextStudentId, nextCourseId |-> nextCourseId,
       IDX_STUDENT_NUMBER_UNIVERSITY |-> IDX_STUDENT_NUMBER_UNIVERSITY,
       NOW |-> NOW]

\* JS truthiness of an id-valued expression: null, undefined and 0 are falsy
Truthy(v) == v # Null /\ v # Undefined

\* express-validator body(f).optional().isInt({min: 1}): undefined is skipped,
\* null is not (optional() without nullable) and fails isInt
optionalIsInt(v) == v = Undefined \/ v >= 1

\* rows[0] || null of a SELECT: the set holds the first row, or is empty
FirstRow(rows, key) ==
  IF rows = {} THEN {}
  ELSE {CHOOSE r \in rows : \A q \in rows : key[r] <= key[q]}

\* a response and the tables the handler leaves: data holds the ids of the
\* records of the body, missing the ids an error object enumerates
ReplyWith(code, msg, d, data, missing) ==
  [statusCode |-> code, message |-> msg, db |-> d,
   data |-> data, missing |-> missing]

Reply(code, msg, d) == ReplyWith(code, msg, d, {}, <<>>)

(***************************************************************************)
(* user.model.js                                                           *)
(***************************************************************************)
findUserById(d, userId) == {u \in d.USER : u.user_id = userId}

findUniversityById(universityId) == {u \in Universities : u = universityId}

userModel_updateUser(d, userId, role, university_id) ==
  [d EXCEPT !.USER =
     {IF u.user_id = userId
        THEN [u EXCEPT !.role = IF role # UndefinedStr THEN role ELSE @,
                       !.university_id =
                          IF university_id # Undefined THEN university_id ELSE @]
        ELSE u : u \in d.USER}]

(***************************************************************************)
(* student.model.js, with the university_id column of                      *)
(* STUDENT_UNIVERSITY_ID_UPDATE.md                                         *)
(***************************************************************************)
\* ER_DUP_ENTRY on the unique index of a deployment that has it; rows with a
\* NULL university_id never collide
DuplicateEntry(d, row) ==
  /\ d.IDX_STUDENT_NUMBER_UNIVERSITY
  /\ row.university_id # Null
  /\ \E s \in d.STUDENT : /\ s.student_id # row.student_id
                          /\ s.university_id = row.university_id
                          /\ s.student_number = row.student_number

studentModel_createStudent(d, studentData) ==
  LET row == [student_id |-> d.nextStudentId,
              university_id |-> studentData.university_id,
              student_number |-> studentData.student_number,
              created_by |-> IF Truthy(studentData.created_by)
                               THEN studentData.created_by ELSE Null]
  IN IF DuplicateEntry(d, row) THEN [error |-> TRUE, db |-> d]
     ELSE [error |-> FALSE,
           db |-> [d EXCEPT !.STUDENT = @ \cup {row}, !.nextStudentId = @ + 1]]

studentModel_findStudentById(d, studentId) ==
  {s \in d.STUDENT : s.student_id = studentId}

studentModel_findStudentByStudentNumberAndUniversityId(d, universityId, studentNumber) ==
  FirstRow({s \in d.STUDENT : s.university_id = universityId
                              /\ s.student_number = studentNumber},
           [s \in d.STUDENT |-> s.student_id])

studentModel_updateStudent(d, studentId, updateFields) ==
  LET set(s) == [s EXCEPT
                  !.university_id = IF updateFields.university_id # Undefined
                                      THEN updateFields.university_id ELSE @,
                  !.student_number = IF updateFields.student_number # UndefinedStr
                                       THEN updateFields.student_number ELSE @,
                  !.created_by = IF updateFields.created_by # Undefined
                                   THEN updateFields.created_by ELSE @]
  IN IF \E s \in d.STUDENT : s.student_id = studentId /\ DuplicateEntry(d, set(s))
       THEN [error |-> TRUE, db |-> d]
       ELSE [error |-> FALSE,
             db |-> [d EXCEPT !.STUDENT =
                      {IF s.student_id = studentId THEN set(s) ELSE s :
                         s \in d.STUDENT}]]

\* DELETE FROM STUDENT; FK_STUDENT_COURSE_STUDENT is ON DELETE CASCADE
studentModel_deleteStudent(d, studentId) ==
  [d EXCEPT !.STUDENT = {s \in @ : s.student_id # studentId},
            !.STUDENT_COURSE = {sc \in @ : sc.student_id # studentId}]

\* mutant: every id is reported as an existing course
validateCoursesExist_skipped(d, courseIds) == <<>>

\* missingCourseIds of validateCoursesExist, in input order
validateCoursesExist(d, courseIds) ==
  SelectSeq(courseIds, LAMBDA id : ~\E c \in d.COURSE : c.course_id = id)

\* STUDENT_COURSE INNER JOIN COURSE for one student
getStudentCourses(d, studentId) ==
  {sc.course_id : sc \in {x \in d.STUDENT_COURSE :
                            /\ x.student_id = studentId
                            /\ \E c \in d.COURSE : c.course_id = x.course_id}}

\* mutant: STUDENT_COURSE has no foreign keys, only its primary key
RECURSIVE insertStudentCourses_noForeignKeys(_, _, _)
insertStudentCourses_noForeignKeys(d, studentId, courseIds) ==
  IF courseIds = <<>> THEN [error |-> FALSE, db |-> d]
  ELSE LET row == [student_id |-> studentId, course_id |-> Head(courseIds),
                   created_at |-> d.NOW]
       IN IF \E sc \in d.STUDENT_COURSE : /\ sc.student_id = row.student_id
                                          /\ sc.course_id = row.course_id
            THEN [error |-> TRUE, db |-> d]
            ELSE insertStudentCourses_noForeignKeys(
                   [d EXCEPT !.STUDENT_COURSE = @ \cup {row}],
                   studentId, Tail(courseIds))

\* INSERT INTO STUDENT_COURSE, one row per id, in order; the primary key
\* (student_id, course_id) and the two foreign keys reject a row, and the
\* rows inserted before it stay (autocommit, no transaction); created_at is
\* NOW() of the statement
RECURSIVE insertStudentCourses(_, _, _)
insertStudentCourses(d, studentId, courseIds) ==
  IF courseIds = <<>> THEN [error |-> FALSE, db |-> d]
  ELSE LET row == [student_id |-> studentId, course_id |-> Head(courseIds),
                   created_at |-> d.NOW]
       IN IF \/ \E sc \in d.STUDENT_COURSE : /\ sc.student_id = row.student_id
                                            /\ sc.course_id = row.course_id
             \/ studentModel_findStudentById(d, studentId) = {}
             \/ ~\E c \in d.COURSE : c.course_id = row.course_id
            THEN [error |-> TRUE, db |-> d]
            ELSE insertStudentCourses(
                   [d EXCEPT !.STUDENT_COURSE = @ \cup {row}],
                   studentId, Tail(courseIds))

\* mutant: the rows of the ids are written anew, the ones already there too
addStudentToCourses_reinsert(d, studentId, courseIds) ==
  IF courseIds = <<>> THEN [error |-> FALSE, db |-> d]
  ELSE IF validateCoursesExist(d, courseIds) # <<>> THEN [error |-> TRUE, db |-> d]
  ELSE insertStudentCourses(
         [d EXCEPT !.STUDENT_COURSE =
            {sc \in @ : ~(/\ sc.student_id = studentId
                          /\ \E i \in DOMAIN courseIds : courseIds[i] = sc.course_id)}],
         studentId, courseIds)

\* mutant: the student's rows are deleted before the INSERT
addStudentToCourses_onlyThese(d, studentId, courseIds) ==
  IF courseIds = <<>> THEN [error |-> FALSE, db |-> d]
  ELSE IF validateCoursesExist(d, courseIds) # <<>> THEN [error |-> TRUE, db |-> d]
  ELSE insertStudentCourses(
         [d EXCEPT !.STUDENT_COURSE = {sc \in @ : sc.student_id # studentId}],
         studentId, courseIds)

addStudentToCourses(d, studentId, courseIds) ==
  IF courseIds = <<>> THEN [error |-> FALSE, db |-> d]
  ELSE IF validateCoursesExist(d, courseIds) # <<>> THEN [error |-> TRUE, db |-> d]
  ELSE insertStudentCourses(d, studentId,
         SelectSeq(courseIds, LAMBDA id : id \notin getStudentCourses(d, studentId)))

\* mutant: the desired courses are added to the current ones
replaceStudentCourses_addOnly(d, studentId, courseIds) ==
  addStudentToCourses(d, studentId, courseIds)

replaceStudentCourses(d, studentId, courseIds) ==
  IF validateCoursesExist(d, courseIds) # <<>> THEN [error |-> TRUE, db |-> d]
  ELSE insertStudentCourses(
         [d EXCEPT !.STUDENT_COURSE = {sc \in @ : sc.student_id # studentId}],
         studentId, courseIds)

\* mutant: the DELETE has no course_id IN (...) condition
removeStudentFromCourses_everyCourse(d, studentId, courseIds) ==
  [d EXCEPT !.STUDENT_COURSE = {sc \in @ : sc.student_id # studentId}]

\* DELETE FROM STUDENT_COURSE WHERE student_id = ? AND course_id IN (...)
removeStudentFromCourses(d, studentId, courseIds) ==
  IF courseIds = <<>> THEN d
  ELSE [d EXCEPT !.STUDENT_COURSE =
          {sc \in @ : ~(/\ sc.student_id = studentId
                        /\ \E i \in DOMAIN courseIds : courseIds[i] = sc.course_id)}]

\* the students a user created (a page holds them all)
studentModel_getStudentsByInstructor(d, instructorId) ==
  {s \in d.STUDENT : s.created_by = instructorId}

(***************************************************************************)
(* student.service.js                                                      *)
(***************************************************************************)
\* mutant: the creator's university wins over the payload's
finalUniversityId_creatorFirst(d, universityId, createdBy) ==
  LET creator == findUserById(d, createdBy)
  IN IF Truthy(createdBy) /\ \E u \in creator : Truthy(u.university_id)
       THEN (CHOOSE u \in creator : TRUE).university_id
       ELSE universityId

\* createStudent: the payload's university, else the creator's
finalUniversityId(d, universityId, createdBy) ==
  LET creator == findUserById(d, createdBy)
  IN IF ~Truthy(universityId) /\ Truthy(createdBy)
        /\ \E u \in creator : Truthy(u.university_id)
       THEN (CHOOSE u \in creator : TRUE).university_id
       ELSE universityId

studentService_createStudent(d, studentData) ==
  LET finalUniversityId_ ==
        finalUniversityId(d, studentData.universityId, studentData.createdBy)
      inserted == studentModel_createStudent(d,
                    [university_id |-> IF Truthy(finalUniversityId_)
                                         THEN finalUniversityId_ ELSE Null,
                     student_number |-> studentData.studentNumber,
                     created_by |-> IF Truthy(studentData.createdBy)
                                      THEN studentData.createdBy ELSE Null])
      linked == addStudentToCourses(inserted.db, d.nextStudentId, studentData.courseIds)
  IN IF Truthy(finalUniversityId_)
        /\ studentModel_findStudentByStudentNumberAndUniversityId(
             d, finalUniversityId_, studentData.studentNumber) # {}
       THEN Reply(409, "Student with this student number in this university already exists", d)
     ELSE IF validateCoursesExist(d, studentData.courseIds) # <<>>
       THEN ReplyWith(404, "One or more courses do not exist", d, {},
                      validateCoursesExist(d, studentData.courseIds))
     ELSE IF inserted.error
       THEN Reply(500, "Internal server error", d)
     ELSE IF linked.error
       THEN Reply(500, "Internal server error", linked.db)
     ELSE Reply(201, "Student created successfully", linked.db)

studentService_updateStudent(d, studentId, updateData, userId, userRole) ==
  LET found == studentModel_findStudentById(d, studentId)
      existingStudent == CHOOSE s \in found : TRUE
      universityId == updateData.universityId
      studentNumber == updateData.studentNumber
      createdBy == updateData.createdBy
      universityIdForCheck ==
        IF universityId # Undefined THEN universityId
        ELSE existingStudent.university_id
      updated == studentModel_updateStudent(d, studentId,
                   [university_id |-> universityId,
                    student_number |-> studentNumber,
                    created_by |-> createdBy])
      replaced == IF updateData.hasCourseIds
                    THEN replaceStudentCourses(updated.db, studentId, updateData.courseIds)
                    ELSE [error |-> FALSE, db |-> updated.db]
  IN IF found = {}
       THEN Reply(404, "Student not found", d)
     ELSE IF userRole # "admin" /\ existingStudent.created_by # userId
       THEN Reply(403, "You do not have permission to update this student", d)
     ELSE IF createdBy # Undefined /\ createdBy # Null
             /\ createdBy # existingStudent.created_by /\ userRole # "admin"
       THEN Reply(403, "You cannot change the student owner. You can only update students you created.", d)
     ELSE IF studentNumber # UndefinedStr
             /\ studentNumber # existingStudent.student_number
             /\ Truthy(universityIdForCheck)
             /\ studentModel_findStudentByStudentNumberAndUniversityId(
                  d, universityIdForCheck, studentNumber) # {}
       THEN Reply(409, "Student with this student number already exists in this university", d)
     ELSE IF universityId # Undefined
             /\ universityId # existingStudent.university_id
             /\ studentNumber = existingStudent.student_number
             /\ Truthy(universityId)
             /\ studentModel_findStudentByStudentNumberAndUniversityId(
                  d, universityId, studentNumber) # {}
       THEN Reply(409, "Student with this student number already exists in the target university", d)
     ELSE IF updateData.hasCourseIds
             /\ validateCoursesExist(d, updateData.courseIds) # <<>>
       THEN ReplyWith(404, "One or more courses do not exist", d, {},
                      validateCoursesExist(d, updateData.courseIds))
     ELSE IF updated.error
       THEN Reply(500, "Internal server error", d)
     ELSE IF replaced.error
       THEN Reply(500, "Internal server error", replaced.db)
     ELSE Reply(200, "Student updated successfully", replaced.db)

\* getStudentById takes no principal: it answers for every caller
studentService_getStudentById(d, studentId) ==
  LET found == studentModel_findStudentById(d, studentId)
  IN IF found = {}
       THEN Reply(404, "Student not found", d)
     ELSE ReplyWith(200, "", d, {s.student_id : s \in found}, <<>>)

\* mutant: the requester's role and id are not compared with the instructor
studentService_getStudentsByInstructor_open(d, instructorId, requestingUserId, requestingUserRole) ==
  IF findUserById(d, instructorId) = {}
    THEN Reply(404, "Instructor not found", d)
  ELSE ReplyWith(200, "", d,
         {s.student_id : s \in studentModel_getStudentsByInstructor(d, instructorId)},
         <<>>)

studentService_getStudentsByInstructor(d, instructorId, requestingUserId, requestingUserRole) ==
  IF requestingUserRole # "admin" /\ requestingUserId # instructorId
    THEN Reply(403, "You do not have permission to view students for this instructor", d)
  ELSE IF findUserById(d, instructorId) = {}
    THEN Reply(404, "Instructor not found", d)
  ELSE ReplyWith(200, "", d,
         {s.student_id : s \in studentModel_getStudentsByInstructor(d, instructorId)},
         <<>>)

studentService_deleteStudent(d, studentId, userId, userRole) ==
  LET found == studentModel_findStudentById(d, studentId)
  IN IF found = {}
       THEN Reply(404, "Student not found", d)
     ELSE IF userRole # "admin" /\ \A s \in found : s.created_by # userId
       THEN Reply(403, "You do not have permission to delete this student", d)
     ELSE Reply(200, "Student deleted successfully",
                studentModel_deleteStudent(d, studentId))

(***************************************************************************)
(* course.model.js, schedule.model.js                                      *)
(***************************************************************************)
courseModel_createCourse(d, courseData) ==
  [d EXCEPT !.COURSE = @ \cup
              {[course_id |-> d.nextCourseId,
                course_code |-> courseData.course_code,
                instructor_id |-> IF Truthy(courseData.instructor_id)
                                    THEN courseData.instructor_id ELSE Null]},
            !.nextCourseId = @ + 1]

findCourseById(d, courseId) == {c \in d.COURSE : c.course_id = courseId}

\* with a university: COURSE INNER JOIN USER ON instructor_id = user_id;
\* with null or undefined: every course with the code
findCourseByCode(d, courseCode, universityId) ==
  FirstRow(
    IF universityId # Null /\ universityId # Undefined
      THEN {c \in d.COURSE :
              /\ c.course_code = courseCode
              /\ \E u \in d.USER : /\ u.user_id = c.instructor_id
                                   /\ u.university_id = universityId}
      ELSE {c \in d.COURSE : c.course_code = courseCode},
    [c \in d.COURSE |-> c.course_id])

\* getAllCourses with the instructor filter (a page holds them all)
courseModel_getAllCourses(d, instructorId) ==
  {c \in d.COURSE : c.instructor_id = instructorId}

courseModel_updateCourse(d, courseId, updateFields) ==
  [d EXCEPT !.COURSE =
     {IF c.course_id = courseId
        THEN [c EXCEPT !.course_code = IF updateFields.course_code # UndefinedStr
                                         THEN updateFields.course_code ELSE @]
        ELSE c : c \in d.COURSE}]

\* mutant: FK_STUDENT_COURSE_COURSE does not cascade
courseModel_deleteCourse_noCascade(d, courseId) ==
  [d EXCEPT !.COURSE = {c \in @ : c.course_id # courseId},
            !.COURSE_SCHEDULE = {e \in @ : e.course_id # courseId}]

\* DELETE FROM COURSE; FK_STUDENT_COURSE_COURSE and FK_COURSE_SCHEDULE_COURSE
\* are ON DELETE CASCADE
courseModel_deleteCourse(d, courseId) ==
  [d EXCEPT !.COURSE = {c \in @ : c.course_id # courseId},
            !.STUDENT_COURSE = {sc \in @ : sc.course_id # courseId},
            !.COURSE_SCHEDULE = {e \in @ : e.course_id # courseId}]

deleteScheduleByCourseId(d, courseId) ==
  [d EXCEPT !.COURSE_SCHEDULE = {e \in @ : e.course_id # courseId}]

\* mutant: COURSE_SCHEDULE has no foreign key to COURSE
createScheduleEntry_noForeignKey(d, courseId, entry) ==
  [error |-> FALSE,
   db |-> [d EXCEPT !.COURSE_SCHEDULE = @ \cup
             {[course_id |-> courseId, day |-> entry.day,
               start_time |-> entry.start_time, end_time |-> entry.end_time]}]]

\* INSERT INTO COURSE_SCHEDULE: FK_COURSE_SCHEDULE_COURSE rejects a course_id
\* of no course
createScheduleEntry(d, courseId, entry) ==
  IF findCourseById(d, courseId) = {} THEN [error |-> TRUE, db |-> d]
  ELSE [error |-> FALSE,
        db |-> [d EXCEPT !.COURSE_SCHEDULE = @ \cup
                  {[course_id |-> courseId, day |-> entry.day,
                    start_time |-> entry.start_time, end_time |-> entry.end_time]}]]

RECURSIVE createScheduleEntries(_, _, _)
createScheduleEntries(d, courseId, schedule) ==
  IF schedule = <<>> THEN d
  ELSE createScheduleEntries(createScheduleEntry(d, courseId, Head(schedule)).db,
                             courseId, Tail(schedule))

\* mutant: the entries are created without the DELETE before them
replaceScheduleForCourse_append(d, courseId, scheduleEntries) ==
  createScheduleEntries(d, courseId, scheduleEntries)

replaceScheduleForCourse(d, courseId, scheduleEntries) ==
  createScheduleEntries(deleteScheduleByCourseId(d, courseId), courseId, scheduleEntries)

(***************************************************************************)
(* course.service.js                                                       *)
(***************************************************************************)
\* the loop of createCourse that enrolls each student in the new course
RECURSIVE enrollEach(_, _, _)
enrollEach(d, studentIds, courseId) ==
  IF studentIds = <<>> THEN [error |-> FALSE, db |-> d]
  ELSE LET r == addStudentToCourses(d, Head(studentIds), <<courseId>>)
       IN IF r.error THEN r ELSE enrollEach(r.db, Tail(studentIds), courseId)

\* the loop that looks each student up and throws at the first one missing
firstMissingStudent(d, studentIds) ==
  LET missing == SelectSeq(studentIds,
                   LAMBDA id : studentModel_findStudentById(d, id) = {})
  IN IF missing = <<>> THEN <<>> ELSE <<Head(missing)>>

courseService_createCourse(d, courseData) ==
  LET createdBy == courseData.createdBy
      found == findUserById(d, createdBy)
      creator == CHOOSE u \in found : TRUE
      existingByCode ==
        IF Truthy(creator.university_id)
          THEN findCourseByCode(d, courseData.courseCode, creator.university_id)
          ELSE findCourseByCode(d, courseData.courseCode, Null)
      inserted == courseModel_createCourse(d,
                    [course_code |-> courseData.courseCode,
                     instructor_id |-> createdBy])
      scheduled == createScheduleEntries(inserted, d.nextCourseId, courseData.schedule)
      enrolled == enrollEach(scheduled, courseData.studentIds, d.nextCourseId)
  IN IF ~Truthy(createdBy)
       THEN Reply(400, "Creator ID is required", d)
     ELSE IF found = {}
       THEN Reply(404, "Creator user not found", d)
     ELSE IF creator.role # "instructor" /\ creator.role # "admin"
       THEN Reply(403, "Only instructors and admins can create courses", d)
     ELSE IF existingByCode # {}
       THEN Reply(409, IF Truthy(creator.university_id)
                         THEN "Course with this course code already exists for your university"
                         ELSE "Course with this course code already exists", d)
     ELSE IF firstMissingStudent(d, courseData.studentIds) # <<>>
       THEN ReplyWith(404, "Student with ID not found", d, {},
                      firstMissingStudent(d, courseData.studentIds))
     ELSE IF enrolled.error
       THEN Reply(500, "Internal server error", enrolled.db)
     ELSE Reply(201, "Course created successfully", enrolled.db)

\* mutant: the code is looked up even when the payload resends the current one
updateCourse_existingByCode_noSelfExclusion(d, existingCourse, courseCode, userId) ==
  LET instructor == findUserById(d, userId)
  IN IF courseCode # UndefinedStr
       THEN IF \E u \in instructor : Truthy(u.university_id)
              THEN findCourseByCode(d, courseCode,
                                    (CHOOSE u \in instructor : TRUE).university_id)
              ELSE findCourseByCode(d, courseCode, Null)
       ELSE {}

\* updateCourse: the course that makes a changed code a duplicate, looked up
\* in the acting user's university, or in every university when it has none
updateCourse_existingByCode(d, existingCourse, courseCode, userId) ==
  LET instructor == findUserById(d, userId)
  IN IF courseCode # UndefinedStr /\ courseCode # existingCourse.course_code
       THEN IF \E u \in instructor : Truthy(u.university_id)
              THEN findCourseByCode(d, courseCode,
                                    (CHOOSE u \in instructor : TRUE).university_id)
              ELSE findCourseByCode(d, courseCode, Null)
       ELSE {}

courseService_updateCourse(d, courseId, updateData, userId) ==
  LET found == findCourseById(d, courseId)
      existingCourse == CHOOSE c \in found : TRUE
      courseCode == updateData.courseCode
      instructorId == updateData.instructorId
      scoped == \E u \in findUserById(d, userId) : Truthy(u.university_id)
      existingByCode == updateCourse_existingByCode(d, existingCourse, courseCode, userId)
      updated == courseModel_updateCourse(d, courseId, [course_code |-> courseCode])
      scheduled ==
        IF ~updateData.hasSchedule THEN updated
        ELSE IF updateData.schedule # <<>>
          THEN replaceScheduleForCourse(updated, courseId, updateData.schedule)
          ELSE deleteScheduleByCourseId(updated, courseId)
  IN IF found = {}
       THEN Reply(404, "Course not found", d)
     ELSE IF existingCourse.instructor_id # userId
       THEN Reply(403, "You do not have permission to update this course", d)
     ELSE IF instructorId # Undefined /\ instructorId # Null /\ instructorId # userId
       THEN Reply(403, "You cannot change the course owner. You can only update courses you created.", d)
     ELSE IF existingByCode # {}
       THEN Reply(409, IF scoped
                         THEN "Course with this course code already exists for your university"
                         ELSE "Course with this course code already exists", d)
     ELSE Reply(200, "Course updated successfully", scheduled)

courseService_deleteCourse(d, courseId, userId) ==
  LET found == findCourseById(d, courseId)
  IN IF found = {}
       THEN Reply(404, "Course not found", d)
     ELSE IF \A c \in found : c.instructor_id # userId
       THEN Reply(403, "You do not have permission to delete this course", d)
     ELSE Reply(200, "Course deleted successfully",
                courseModel_deleteCourse(deleteScheduleByCourseId(d, courseId), courseId))

\* STUDENT INNER JOIN STUDENT_COURSE for one course, for its owner only
courseService_getEnrolledStudents(d, courseId, userId) ==
  LET found == findCourseById(d, courseId)
  IN IF found = {}
       THEN Reply(404, "Course not found", d)
     ELSE IF \A c \in found : c.instructor_id # userId
       THEN Reply(403, "You do not have permission to view students in this course", d)
     ELSE ReplyWith(200, "", d,
            {sc.student_id : sc \in {x \in d.STUDENT_COURSE :
                /\ x.course_id = courseId
                /\ studentModel_findStudentById(d, x.student_id) # {}}},
            <<>>)

courseService_getCourseById(d, courseId, userId) ==
  LET found == findCourseById(d, courseId)
  IN IF found = {}
       THEN Reply(404, "Course not found", d)
     ELSE IF \A c \in found : c.instructor_id # userId
       THEN Reply(403, "You do not have permission to access this course", d)
     ELSE ReplyWith(200, "", d, {c.course_id : c \in found}, <<>>)

courseService_enrollStudents(d, courseId, studentIds, userId) ==
  LET found == findCourseById(d, courseId)
      enrolled == enrollEach(d, studentIds, courseId)
  IN IF found = {}
       THEN Reply(404, "Course not found", d)
     ELSE IF \A c \in found : c.instructor_id # userId
       THEN Reply(403, "You do not have permission to enroll students in this course", d)
     ELSE IF firstMissingStudent(d, studentIds) # <<>>
       THEN ReplyWith(404, "Student with ID not found", d, {},
                      firstMissingStudent(d, studentIds))
     ELSE IF enrolled.error
       THEN Reply(500, "Internal server error", enrolled.db)
     ELSE ReplyWith(200, "Students enrolled successfully", enrolled.db,
            courseService_getEnrolledStudents(enrolled.db, courseId, userId).data,
            <<>>)

RECURSIVE removeEach(_, _, _)
removeEach(d, studentIds, courseId) ==
  IF studentIds = <<>> THEN d
  ELSE removeEach(removeStudentFromCourses(d, Head(studentIds), <<courseId>>),
                  Tail(studentIds), courseId)

courseService_removeStudents(d, courseId, studentIds, userId) ==
  LET found == findCourseById(d, courseId)
  IN IF found = {}
       THEN Reply(404, "Course not found", d)
     ELSE IF \A c \in found : c.instructor_id # userId
       THEN Reply(403, "You do not have permission to remove students from this course", d)
     ELSE Reply(200, "Students removed from course successfully",
                removeEach(d, studentIds, courseId))

courseService_getCoursesByInstructorId(d, instructorId, requestingUserId, requestingUserRole) ==
  IF requestingUserRole # "admin" /\ requestingUserId # instructorId
    THEN Reply(403, "You do not have permission to view courses for this instructor", d)
  ELSE IF findUserById(d, instructorId) = {}
    THEN Reply(404, "Instructor not found", d)
  ELSE ReplyWith(200, "", d,
         {c.course_id : c \in courseModel_getAllCourses(d, instructorId)}, <<>>)

(***************************************************************************)
(* settings.service.js                                                     *)
(***************************************************************************)
settingsService_updateProfile(d, userId, profileData) ==
  IF findUserById(d, userId) = {}
    THEN Reply(404, "User not found", d)
  ELSE IF profileData.universityId # Undefined /\ profileData.universityId # Null
          /\ findUniversityById(profileData.universityId) = {}
    THEN Reply(404, "University not found", d)
  ELSE Reply(200, "Profile updated successfully",
             userModel_updateUser(d, userId, profileData.role, profileData.universityId))

(***************************************************************************)
(* middleware, validators, controllers: one operator per route             *)
(***************************************************************************)
\* mutant: every authenticated user is handed the admin role
authMiddleware_everyoneAdmin(d, tokenUserId) ==
  {[userId |-> u.user_id, role |-> "admin"] : u \in findUserById(d, tokenUserId)}

\* req.user of authMiddleware for the token's user; empty: 401
authMiddleware(d, tokenUserId) ==
  {[userId |-> u.user_id, role |-> u.role] : u \in findUserById(d, tokenUserId)}

\* next(error) with a plain Error: errorHandler answers 500
errorHandler(r) == Reply(500, "Internal server error", r.db)

ValidationFailed(d) == Reply(400, "Validation failed", d)
Unauthorized(d) == Reply(401, "User not found", d)

validateCreateStudent(body) ==
  optionalIsInt(body.universityId) /\ optionalIsInt(body.createdBy)

\* mutant: optional({nullable: true}) lets an explicit null through
validateUpdateStudent_nullable(body) ==
  /\ body.universityId = Null \/ optionalIsInt(body.universityId)
  /\ body.createdBy = Null \/ optionalIsInt(body.createdBy)

validateUpdateStudent(body) ==
  optionalIsInt(body.universityId) /\ optionalIsInt(body.createdBy)

\* the days the schedule validator accepts
Weekdays ==
  {"Monday", "Tuesday", "Wednesday", "Thursday", "Friday", "Saturday", "Sunday"}

\* the strings of the requests that match /^([0-1][0-9]|2[0-3]):[0-5][0-9]$/
\* and their minutes of the day, hour * 60 + minute of split(':').map(Number)
hhmm == ("09:00" :> 540) @@ ("10:00" :> 600) @@ ("23:59" :> 1439)

\* mutant: the entries of a schedule are not looked at
validateSchedule_anyEntry(schedule) == TRUE

\* body('schedule').optional().isArray().custom(...) of both validators; a
\* field that is not sent reads as undefined
validateSchedule(schedule) ==
  \A i \in DOMAIN schedule :
     LET entry == schedule[i]
     IN /\ entry.day # UndefinedStr
        /\ entry.start_time # UndefinedStr
        /\ entry.end_time # UndefinedStr
        /\ entry.day \in Weekdays
        /\ entry.start_time \in DOMAIN hhmm
        /\ entry.end_time \in DOMAIN hhmm
        /\ hhmm[entry.end_time] > hhmm[entry.start_time]

validateCreateCourse(body) == validateSchedule(body.schedule)

validateUpdateCourse(body) ==
  /\ optionalIsInt(body.instructorId)
  /\ body.hasSchedule => validateSchedule(body.schedule)

\* universityId: optional().custom(null or a positive integer)
validateUpdateProfile(body) ==
  /\ body.role \in {UndefinedStr, "admin", "instructor"}
  /\ body.universityId = Undefined \/ body.universityId = Null \/ body.universityId >= 1

\* mutant: createdBy is passed on as sent, without the fallback to req.user
studentController_createStudent_noFallback(d, tokenUserId, body) ==
  LET user == authMiddleware(d, tokenUserId)
      r == studentService_createStudent(d,
             [universityId |-> body.universityId,
              studentNumber |-> body.studentNumber,
              createdBy |-> body.createdBy,
              courseIds |-> body.courseIds])
  IN IF user = {} THEN Unauthorized(d)
     ELSE IF ~validateCreateStudent(body) THEN ValidationFailed(d)
     ELSE IF r.statusCode \in {201, 409, 404} THEN r
     ELSE errorHandler(r)

\* POST /api/students
studentController_createStudent(d, tokenUserId, body) ==
  LET user == authMiddleware(d, tokenUserId)
      userId == IF Truthy(body.createdBy) THEN body.createdBy
                ELSE (CHOOSE u \in user : TRUE).userId
      r == studentService_createStudent(d,
             [universityId |-> body.universityId,
              studentNumber |-> body.studentNumber,
              createdBy |-> userId,
              courseIds |-> body.courseIds])
  IN IF user = {} THEN Unauthorized(d)
     ELSE IF ~validateCreateStudent(body) THEN ValidationFailed(d)
     ELSE IF r.statusCode \in {201, 409, 404} THEN r
     ELSE errorHandler(r)

\* GET /api/students/:id
studentController_getStudentById(d, tokenUserId, studentId) ==
  LET user == authMiddleware(d, tokenUserId)
      r == studentService_getStudentById(d, studentId)
  IN IF user = {} THEN Unauthorized(d)
     ELSE IF r.statusCode \in {200, 404} THEN r
     ELSE errorHandler(r)

\* GET /api/students/instructor/:instructorId
studentController_getStudentsByInstructor(d, tokenUserId, instructorId) ==
  LET user == authMiddleware(d, tokenUserId)
      reqUser == CHOOSE u \in user : TRUE
      r == studentService_getStudentsByInstructor(d, instructorId,
                                                  reqUser.userId, reqUser.role)
  IN IF user = {} THEN Unauthorized(d)
     ELSE IF r.statusCode \in {200, 404, 403} THEN r
     ELSE errorHandler(r)

\* PUT /api/students/:id
\* mutant: every 403 is answered with the reason of the ownership check
studentController_updateStudent_oneReason(d, tokenUserId, studentId, body) ==
  LET user == authMiddleware(d, tokenUserId)
      reqUser == CHOOSE u \in user : TRUE
      r == studentService_updateStudent(d, studentId, body, reqUser.userId, reqUser.role)
  IN IF user = {} THEN Unauthorized(d)
     ELSE IF ~validateUpdateStudent(body) THEN ValidationFailed(d)
     ELSE IF r.statusCode = 403
       THEN Reply(403, "You do not have permission to update this student", d)
     ELSE IF r.statusCode \in {200, 404, 409} THEN r
     ELSE errorHandler(r)

studentController_updateStudent(d, tokenUserId, studentId, body) ==
  LET user == authMiddleware(d, tokenUserId)
      reqUser == CHOOSE u \in user : TRUE
      r == studentService_updateStudent(d, studentId, body, reqUser.userId, reqUser.role)
  IN IF user = {} THEN Unauthorized(d)
     ELSE IF ~validateUpdateStudent(body) THEN ValidationFailed(d)
     ELSE IF r.statusCode \in {200, 404, 403, 409} THEN r
     ELSE errorHandler(r)

\* DELETE /api/students/:id
studentController_deleteStudent(d, tokenUserId, studentId) ==
  LET user == authMiddleware(d, tokenUserId)
      reqUser == CHOOSE u \in user : TRUE
      r == studentService_deleteStudent(d, studentId, reqUser.userId, reqUser.role)
  IN IF user = {} THEN Unauthorized(d)
     ELSE IF r.statusCode \in {200, 404, 403} THEN r
     ELSE errorHandler(r)

\* mutant: the body's instructorId, when sent, is the course's creator
courseController_createCourse_bodyInstructor(d, tokenUserId, body) ==
  LET user == authMiddleware(d, tokenUserId)
      r == courseService_createCourse(d,
             [courseCode |-> body.courseCode, schedule |-> body.schedule,
              studentIds |-> body.studentIds,
              createdBy |-> IF Truthy(body.instructorId) THEN body.instructorId
                            ELSE (CHOOSE u \in user : TRUE).userId])
  IN IF user = {} THEN Unauthorized(d)
     ELSE IF ~validateCreateCourse(body) THEN ValidationFailed(d)
     ELSE IF r.statusCode \in {201, 409, 404} THEN r
     ELSE errorHandler(r)

\* POST /api/courses: the body's instructorId is not read
courseController_createCourse(d, tokenUserId, body) ==
  LET user == authMiddleware(d, tokenUserId)
      r == courseService_createCourse(d,
             [courseCode |-> body.courseCode, schedule |-> body.schedule,
              studentIds |-> body.studentIds,
              createdBy |-> (CHOOSE u \in user : TRUE).userId])
  IN IF user = {} THEN Unauthorized(d)
     ELSE IF ~validateCreateCourse(body) THEN ValidationFailed(d)
     ELSE IF r.statusCode \in {201, 409, 404} THEN r
     ELSE errorHandler(r)

\* mutant: the controller hands the service the course owner's id for an
\* admin, so the ownership check lets an admin through
courseController_updateCourse_adminBypass(d, tokenUserId, courseId, body) ==
  LET user == authMiddleware(d, tokenUserId)
      reqUser == CHOOSE u \in user : TRUE
      owner == {c.instructor_id : c \in findCourseById(d, courseId)}
      r == courseService_updateCourse(d, courseId, body,
             IF reqUser.role = "admin" /\ owner # {}
               THEN CHOOSE o \in owner : TRUE ELSE reqUser.userId)
  IN IF user = {} THEN Unauthorized(d)
     ELSE IF ~validateUpdateCourse(body) THEN ValidationFailed(d)
     ELSE IF r.statusCode \in {200, 404, 403, 409} THEN r
     ELSE errorHandler(r)

\* PUT /api/courses/:id
courseController_updateCourse(d, tokenUserId, courseId, body) ==
  LET user == authMiddleware(d, tokenUserId)
      r == courseService_updateCourse(d, courseId, body,
                                      (CHOOSE u \in user : TRUE).userId)
  IN IF user = {} THEN Unauthorized(d)
     ELSE IF ~validateUpdateCourse(body) THEN ValidationFailed(d)
     ELSE IF r.statusCode \in {200, 404, 403, 409} THEN r
     ELSE errorHandler(r)

\* DELETE /api/courses/:id: the controller maps only 404
courseController_deleteCourse(d, tokenUserId, courseId) ==
  LET user == authMiddleware(d, tokenUserId)
      r == courseService_deleteCourse(d, courseId, (CHOOSE u \in user : TRUE).userId)
  IN IF user = {} THEN Unauthorized(d)
     ELSE IF r.statusCode \in {200, 404} THEN r
     ELSE errorHandler(r)

\* GET /api/courses/instructor/:instructorId
courseController_getCoursesByInstructorId(d, tokenUserId, instructorId) ==
  LET user == authMiddleware(d, tokenUserId)
      reqUser == CHOOSE u \in user : TRUE
      r == courseService_getCoursesByInstructorId(d, instructorId,
                                                  reqUser.userId, reqUser.role)
  IN IF user = {} THEN Unauthorized(d)
     ELSE IF r.statusCode \in {200, 404, 403} THEN r
     ELSE errorHandler(r)

\* GET /api/courses/:id
courseController_getCourseById(d, tokenUserId, courseId) ==
  LET user == authMiddleware(d, tokenUserId)
      r == courseService_getCourseById(d, courseId, (CHOOSE u \in user : TRUE).userId)
  IN IF user = {} THEN Unauthorized(d)
     ELSE IF r.statusCode \in {200, 404, 403} THEN r
     ELSE errorHandler(r)

\* POST /api/courses/:id/students
courseController_enrollStudents(d, tokenUserId, courseId, body) ==
  LET user == authMiddleware(d, tokenUserId)
      r == courseService_enrollStudents(d, courseId, body.studentIds,
                                        (CHOOSE u \in user : TRUE).userId)
  IN IF user = {} THEN Unauthorized(d)
     ELSE IF body.studentIds = <<>> THEN Reply(400, "studentIds array is required", d)
     ELSE IF r.statusCode \in {200, 404, 403} THEN r
     ELSE errorHandler(r)

\* DELETE /api/courses/:id/students
courseController_removeStudents(d, tokenUserId, courseId, body) ==
  LET user == authMiddleware(d, tokenUserId)
      r == courseService_removeStudents(d, courseId, body.studentIds,
                                        (CHOOSE u \in user : TRUE).userId)
  IN IF user = {} THEN Unauthorized(d)
     ELSE IF body.studentIds = <<>> THEN Reply(400, "studentIds array is required", d)
     ELSE IF r.statusCode \in {200, 404, 403} THEN r
     ELSE errorHandler(r)

\* PUT /api/settings/profile
settingsController_updateProfile(d, tokenUserId, body) ==
  LET user == authMiddleware(d, tokenUserId)
      r == settingsService_updateProfile(d, (CHOOSE u \in user : TRUE).userId, body)
  IN IF user = {} THEN Unauthorized(d)
     ELSE IF ~validateUpdateProfile(body) THEN ValidationFailed(d)
     ELSE r

(***************************************************************************)
(* requests the clients send                                               *)
(***************************************************************************)
OptionalId(ids) == {Undefined} \cup ids

\* a body sets the key fields or names an owner; a field may also be null
CreateStudentBodies ==
  [universityId : OptionalId(Universities), studentNumber : StudentNumbers,
   createdBy : {Undefined}, courseIds : {<<>>}]
  \cup
  [universityId : {Undefined}, studentNumber : StudentNumbers,
   createdBy : UserIds, courseIds : {<<>>}]
  \cup {[universityId |-> Null, studentNumber |-> "1001",
         createdBy |-> Undefined, courseIds |-> <<>>],
        [universityId |-> Undefined, studentNumber |-> "1001",
         createdBy |-> Null, courseIds |-> <<>>]}

UpdateStudentBodies ==
  [universityId : OptionalId(Universities),
   studentNumber : {UndefinedStr} \cup StudentNumbers,
   createdBy : {Undefined}, hasCourseIds : {FALSE}, courseIds : {<<>>}]
  \cup
  [universityId : {Undefined},
   studentNumber : {UndefinedStr} \cup StudentNumbers,
   createdBy : UserIds, hasCourseIds : {FALSE}, courseIds : {<<>>}]
  \cup {[universityId |-> Null, studentNumber |-> UndefinedStr,
         createdBy |-> Undefined, hasCourseIds |-> FALSE, courseIds |-> <<>>],
        [universityId |-> Undefined, studentNumber |-> UndefinedStr,
         createdBy |-> Null, hasCourseIds |-> FALSE, courseIds |-> <<>>]}

Monday9to10 == [day |-> "Monday", start_time |-> "09:00", end_time |-> "10:00"]

\* a body may name an instructor other than the caller
CreateCourseBodies ==
  [courseCode : CourseCodes, schedule : {<<>>, <<Monday9to10>>},
   studentIds : {<<>>}, instructorId : {Undefined, 3}]

UpdateCourseBodies ==
  [courseCode : {UndefinedStr} \cup CourseCodes,
   instructorId : OptionalId(UserIds), hasSchedule : {FALSE}, schedule : {<<>>}]
  \cup {[courseCode |-> UndefinedStr, instructorId |-> Null,
         hasSchedule |-> FALSE, schedule |-> <<>>],
        [courseCode |-> UndefinedStr, instructorId |-> Undefined,
         hasSchedule |-> TRUE, schedule |-> <<>>],
        [courseCode |-> UndefinedStr, instructorId |-> Undefined,
         hasSchedule |-> TRUE, schedule |-> <<Monday9to10>>]}

\* schedules of a course body: entries the validator accepts, and entries
\* with a day that is no weekday name, an end at or before the start, a
\* time that is not HH:MM, or no day
ScheduleLists ==
  LET entry(day, start, end) ==
        [day |-> day, start_time |-> start, end_time |-> end]
  IN {<<Monday9to10>>,
      <<Monday9to10, entry("Tuesday", "10:00", "23:59")>>,
      <<entry("Funday", "09:00", "10:00")>>,
      <<entry("monday", "09:00", "10:00")>>,
      <<entry("Monday", "09:00", "09:00")>>,
      <<entry("Monday", "10:00", "09:00")>>,
      <<entry("Monday", "9:00", "10:00")>>,
      <<entry("Monday", "09:00", "24:00")>>,
      <<entry(UndefinedStr, "09:00", "10:00")>>,
      <<Monday9to10, entry("Tuesday", "23:59", "10:00")>>}

UpdateProfileBodies ==
  [role : {UndefinedStr}, universityId : {Undefined, Null} \cup Universities]

StudentIds == 1..MaxStudents
CourseIds == 1..MaxCourses

\* ids of no row
MissingIds == {8, 9}

\* courseIds of a student body: none, some, a repeated one, missing ones
CourseIdLists ==
  {<<>>, <<1>>, <<2>>, <<3>>, <<1, 2>>, <<2, 3>>, <<1, 1>>,
   <<9>>, <<1, 9>>, <<8, 9>>}

\* studentIds of a course body
StudentIdLists ==
  {<<>>, <<1>>, <<2>>, <<1, 2>>, <<1, 1>>, <<9>>, <<1, 9>>, <<8, 9>>}

CreateStudentWithCoursesBodies ==
  [universityId : {Undefined}, studentNumber : {"1001"},
   createdBy : {Undefined}, courseIds : CourseIdLists]

ReplaceCoursesBodies ==
  [universityId : {Undefined}, studentNumber : {UndefinedStr},
   createdBy : {Undefined}, hasCourseIds : {TRUE}, courseIds : CourseIdLists]

CreateCourseWithStudentsBodies ==
  [courseCode : {"CS201"}, schedule : {<<>>}, studentIds : StudentIdLists,
   instructorId : {Undefined}]

StudentIdsBodies == [studentIds : StudentIdLists]

(***************************************************************************)
(* state machine                                                           *)
(***************************************************************************)
NoRequest == [op |-> "none"]

\* the two clients whose requests the server runs at the same time, and
\* the handler invocation of each
Clients == {1, 2}

NoCall == [op |-> "none"]

NoCalls == [c \in Clients |-> NoCall]

Users0 ==
  {[user_id |-> 1, role |-> "admin", university_id |-> Null],
   [user_id |-> 2, role |-> "instructor", university_id |-> 1],
   [user_id |-> 3, role |-> "instructor", university_id |-> 2]}

InitTables ==
  /\ USER = Users0
  /\ USER_VERIFICATION = {}
  /\ STUDENT = {}
  /\ COURSE = {}
  /\ COURSE_SCHEDULE = {}
  /\ STUDENT_COURSE = {}
  /\ nextStudentId = 1
  /\ nextCourseId = 1
  /\ NOW = 1
  /\ last = NoRequest
  /\ calls = NoCalls

\* a population the create requests of Spec reach: two students of two
\* owners, three courses of two instructors, one of them with a schedule
Students0 ==
  {[student_id |-> 1, university_id |-> 1, student_number |-> "1001",
    created_by |-> 2],
   [student_id |-> 2, university_id |-> 2, student_number |-> "2001",
    created_by |-> 3]}

Courses0 ==
  {[course_id |-> 1, course_code |-> "CS101", instructor_id |-> 2],
   [course_id |-> 2, course_code |-> "CS201", instructor_id |-> 2],
   [course_id |-> 3, course_code |-> "CS101", instructor_id |-> 3]}

Schedule0 ==
  {[course_id |-> 1, day |-> "Monday", start_time |-> "09:00",
    end_time |-> "10:00"],
   [course_id |-> 1, day |-> "Tuesday", start_time |-> "09:00",
    end_time |-> "10:00"]}

\* the workloads that start from the population: requests on the links of
\* its rows, and creates that carry links
EnrollWorkloads == {"links", "creates"}

Populated == workload \in EnrollWorkloads

\* the ids the requests of a workload name
RequestStudentIds ==
  IF Populated THEN {s.student_id : s \in Students0} \cup {9} ELSE StudentIds

RequestCourseIds ==
  IF Populated THEN {c.course_id : c \in Courses0} \cup {9} ELSE CourseIds

\* the last id the auto-increment columns hand out
LastStudentId ==
  IF Populated THEN Cardinality(Students0) + 1 ELSE MaxStudents

LastCourseId ==
  IF Populated THEN Cardinality(Courses0) + 1 ELSE MaxCourses

Init ==
  /\ InitTables
  /\ workload \in {"students", "courses"}
  /\ IDX_STUDENT_NUMBER_UNIVERSITY \in BOOLEAN
  /\ workload = "courses" => IDX_STUDENT_NUMBER_UNIVERSITY

\* the handler ran on the request: the tables are as it left them and the
\* client holds its response
Respond(op, user, id, body, r) ==
  /\ USER' = r.db.USER
  /\ USER_VERIFICATION' = r.db.USER_VERIFICATION
  /\ STUDENT' = r.db.STUDENT
  /\ COURSE' = r.db.COURSE
  /\ COURSE_SCHEDULE' = r.db.COURSE_SCHEDULE
  /\ STUDENT_COURSE' = r.db.STUDENT_COURSE
  /\ nextStudentId' = r.db.nextStudentId
  /\ nextCourseId' = r.db.nextCourseId
  /\ last' = [op |-> op, user |-> user, id |-> id, body |-> body,
              statusCode |-> r.statusCode, message |-> r.message,
              data |-> r.data, missing |-> r.missing, before |-> db]
  /\ UNCHANGED <<IDX_STUDENT_NUMBER_UNIVERSITY, NOW, workload, calls>>

Idle == last = NoRequest

CreateStudent ==
  /\ Idle /\ workload \in {"students", "creates", "roles"}
  /\ \E u \in UserIds,
        body \in IF Populated THEN CreateStudentWithCoursesBodies
                 ELSE IF workload = "roles"
                   THEN [universityId : {Undefined}, studentNumber : StudentNumbers,
                         createdBy : {Undefined, 3, 9}, courseIds : {<<>>}]
                 ELSE CreateStudentBodies :
       LET r == studentController_createStudent(db, u, body)
       IN /\ r.db.nextStudentId <= LastStudentId + 1
          /\ Respond("createStudent", u, nextStudentId, body, r)

UpdateStudent ==
  /\ Idle /\ workload \in {"students", "links", "roles"}
  /\ \E u \in UserIds, id \in RequestStudentIds,
        body \in IF Populated THEN ReplaceCoursesBodies
                 ELSE IF workload = "roles"
                   THEN [universityId : {Undefined}, studentNumber : {UndefinedStr},
                         createdBy : {Undefined, 3, 9}, hasCourseIds : {FALSE},
                         courseIds : {<<>>}]
                 ELSE UpdateStudentBodies :
       Respond("updateStudent", u, id, body,
               studentController_updateStudent(db, u, id, body))

DeleteStudent ==
  /\ Idle /\ workload \in {"students", "links", "roles"}
  /\ \E u \in UserIds, id \in RequestStudentIds :
       Respond("deleteStudent", u, id, <<>>,
               studentController_deleteStudent(db, u, id))

CreateCourse ==
  /\ Idle /\ workload \in {"courses", "creates", "schedules"}
  /\ \E u \in UserIds,
        body \in IF Populated THEN CreateCourseWithStudentsBodies
                 ELSE IF workload = "schedules"
                   THEN [courseCode : CourseCodes, schedule : ScheduleLists,
                         studentIds : {<<>>}, instructorId : {Undefined}]
                 ELSE CreateCourseBodies :
       LET r == courseController_createCourse(db, u, body)
       IN /\ r.db.nextCourseId <= LastCourseId + 1
          /\ Respond("createCourse", u, nextCourseId, body, r)

UpdateCourse ==
  /\ Idle /\ workload \in {"courses", "schedules"}
  /\ \E u \in UserIds, id \in CourseIds,
        body \in IF workload = "schedules"
                   THEN [courseCode : {UndefinedStr}, instructorId : {Undefined},
                         hasSchedule : {TRUE}, schedule : ScheduleLists \cup {<<>>}]
                        \cup {[courseCode |-> "CS201", instructorId |-> Undefined,
                               hasSchedule |-> FALSE, schedule |-> <<>>]}
                 ELSE UpdateCourseBodies :
       Respond("updateCourse", u, id, body,
               courseController_updateCourse(db, u, id, body))

DeleteCourse ==
  /\ Idle /\ workload \in {"courses", "links"}
  /\ \E u \in UserIds, id \in RequestCourseIds :
       Respond("deleteCourse", u, id, <<>>,
               courseController_deleteCourse(db, u, id))

UpdateProfile ==
  /\ Idle /\ workload \in {"courses", "roles"}
  /\ \E u \in UserIds,
        body \in IF workload = "roles"
                   THEN [role : {UndefinedStr, "admin", "superuser"},
                         universityId : {Undefined}]
                 ELSE UpdateProfileBodies :
       Respond("updateProfile", u, u, body,
               settingsController_updateProfile(db, u, body))

\* the client has read the response
Receive ==
  /\ ~Idle
  /\ last' = NoRequest
  /\ UNCHANGED <<USER, USER_VERIFICATION, STUDENT, COURSE, COURSE_SCHEDULE,
                 STUDENT_COURSE,
                 nextStudentId, nextCourseId, IDX_STUDENT_NUMBER_UNIVERSITY,
                 NOW, workload, calls>>

Next ==
  \/ CreateStudent \/ UpdateStudent \/ DeleteStudent
  \/ CreateCourse \/ UpdateCourse \/ DeleteCourse
  \/ Receive

Spec == Init /\ [][Next]_vars

(***************************************************************************)
(* the links between students and courses: requests on a population        *)
(***************************************************************************)
\* seconds of the database clock the requests are spread over
MaxNow == 2

InitEnroll ==
  /\ USER = Users0
  /\ USER_VERIFICATION = {}
  /\ STUDENT = Students0
  /\ COURSE = Courses0
  /\ COURSE_SCHEDULE = Schedule0
  /\ STUDENT_COURSE = {}
  /\ nextStudentId = Cardinality(Students0) + 1
  /\ nextCourseId = Cardinality(Courses0) + 1
  /\ NOW = 1
  /\ last = NoRequest
  /\ calls = NoCalls
  /\ workload \in EnrollWorkloads
  /\ IDX_STUDENT_NUMBER_UNIVERSITY = TRUE

GetStudentById ==
  /\ Idle /\ Populated
  /\ \E u \in UserIds, id \in RequestStudentIds :
       Respond("getStudentById", u, id, <<>>,
               studentController_getStudentById(db, u, id))

GetStudentsByInstructor ==
  /\ Idle /\ Populated
  /\ \E u \in UserIds, id \in UserIds \cup {9} :
       Respond("getStudentsByInstructor", u, id, <<>>,
               studentController_getStudentsByInstructor(db, u, id))

GetCourseById ==
  /\ Idle /\ Populated
  /\ \E u \in UserIds, id \in RequestCourseIds :
       Respond("getCourseById", u, id, <<>>,
               courseController_getCourseById(db, u, id))

GetCoursesByInstructorId ==
  /\ Idle /\ Populated
  /\ \E u \in UserIds, id \in UserIds \cup {9} :
       Respond("getCoursesByInstructorId", u, id, <<>>,
               courseController_getCoursesByInstructorId(db, u, id))

EnrollStudents ==
  /\ Idle /\ workload = "links"
  /\ \E u \in UserIds, id \in RequestCourseIds, body \in StudentIdsBodies :
       Respond("enrollStudents", u, id, body,
               courseController_enrollStudents(db, u, id, body))

RemoveStudents ==
  /\ Idle /\ workload = "links"
  /\ \E u \in UserIds, id \in RequestCourseIds, body \in StudentIdsBodies :
       Respond("removeStudents", u, id, body,
               courseController_removeStudents(db, u, id, body))

\* a second passes between two requests
Tick ==
  /\ Idle /\ (Populated \/ workload = "auth")
  /\ NOW < MaxNow
  /\ NOW' = NOW + 1
  /\ UNCHANGED <<USER, USER_VERIFICATION, STUDENT, COURSE, COURSE_SCHEDULE,
                 STUDENT_COURSE,
                 nextStudentId, nextCourseId, IDX_STUDENT_NUMBER_UNIVERSITY,
                 workload, last, calls>>

NextEnroll ==
  \/ CreateStudent \/ UpdateStudent \/ DeleteStudent
  \/ CreateCourse \/ DeleteCourse
  \/ GetStudentById \/ GetStudentsByInstructor
  \/ GetCourseById \/ GetCoursesByInstructorId
  \/ EnrollStudents \/ RemoveStudents
  \/ Tick \/ Receive

SpecEnroll == InitEnroll /\ [][NextEnroll]_vars

(***************************************************************************)
(* two requests at the same time.  A handler is async: it runs up to its   *)
(* next await of a persistence call, and the other handler may run its     *)
(* next call in between.  Every statement is its own transaction           *)
(* (db.pool.execute, autocommit).  A call holds the handler's position     *)
(* (pc: the persistence call it awaits next), its loop index k, the list   *)
(* it walks, and the tables as they were when the request arrived.         *)
(***************************************************************************)
NewCall(op, user, id, list, pc) ==
  [op |-> op, user |-> user, id |-> id, list |-> list, pc |-> pc, k |-> 1,
   row |-> TRUE, statusCode |-> 0, before |-> db]

Goto(c, pc) == [c EXCEPT !.pc = pc]

\* the response: deleteCourse's controller maps 404 only, the other
\* controllers map the codes their services throw
Done(c, code) ==
  [c EXCEPT !.pc = "done",
            !.statusCode = IF c.op = "deleteCourse" /\ code \notin {200, 404}
                             THEN 500 ELSE code]

\* for (... of list): on to the next element, or out of the loop
NextOf(c, pcLoop, pcAfter) ==
  IF c.k < Len(c.list) THEN [c EXCEPT !.pc = pcLoop, !.k = @ + 1]
  ELSE [c EXCEPT !.pc = pcAfter, !.k = 1]

Result(d, c) == [db |-> d, call |-> c]

\* getEnrolledStudents at the end of enrollStudents and createCourse
getEnrolledStudents_step(d, c, success) ==
  LET r == courseService_getEnrolledStudents(d, c.id, c.user)
  IN Result(d, Done(c, IF r.statusCode = 200 THEN success ELSE r.statusCode))

\* addStudentToCourses(list[k], [id]) inside the loop over the students
addStudentToCourse_step(d, c) ==
  LET studentId == c.list[c.k]
      inserted == insertStudentCourses(d, studentId, <<c.id>>)
  IN CASE c.pc = "validateCoursesExist" ->
            Result(d, IF validateCoursesExist(d, <<c.id>>) # <<>>
                        THEN Done(c, 404) ELSE Goto(c, "getStudentCourses"))
       [] c.pc = "getStudentCourses" ->
            Result(d, IF c.id \in getStudentCourses(d, studentId)
                        THEN NextOf(c, "validateCoursesExist", "getEnrolledStudents")
                        ELSE Goto(c, "INSERT"))
       [] c.pc = "INSERT" ->
            Result(inserted.db,
                   IF inserted.error THEN Done(c, 500)
                   ELSE NextOf(c, "validateCoursesExist", "getEnrolledStudents"))

enrollStudents_step(d, c) ==
  LET found == findCourseById(d, c.id)
  IN CASE c.pc = "findCourseById" ->
            Result(d, IF found = {} THEN Done(c, 404)
                      ELSE IF \A x \in found : x.instructor_id # c.user
                        THEN Done(c, 403)
                      ELSE Goto(c, "findStudentById"))
       [] c.pc = "findStudentById" ->
            Result(d, IF studentModel_findStudentById(d, c.list[c.k]) = {}
                        THEN Done(c, 404)
                        ELSE NextOf(c, "findStudentById", "validateCoursesExist"))
       [] c.pc = "getEnrolledStudents" -> getEnrolledStudents_step(d, c, 200)
       [] OTHER -> addStudentToCourse_step(d, c)

createCourse_step(d, c) ==
  LET creator == CHOOSE u \in findUserById(d, c.user) : TRUE
      inserted == courseModel_createCourse(d,
                    [course_code |-> "CS201", instructor_id |-> c.user])
  IN CASE c.pc = "findUserById" ->
            Result(d, IF findUserById(d, c.user) = {} THEN Done(c, 404)
                      ELSE Goto(c, "findCourseByCode"))
       [] c.pc = "findCourseByCode" ->
            Result(d, IF findCourseByCode(d, "CS201",
                           IF Truthy(creator.university_id)
                             THEN creator.university_id ELSE Null) # {}
                        THEN Done(c, 409)
                        ELSE Goto(c, "findStudentById"))
       [] c.pc = "findStudentById" ->
            Result(d, IF studentModel_findStudentById(d, c.list[c.k]) = {}
                        THEN Done(c, 404)
                        ELSE NextOf(c, "findStudentById", "createCourse"))
       [] c.pc = "createCourse" ->
            Result(inserted, [c EXCEPT !.pc = "validateCoursesExist",
                                       !.id = d.nextCourseId])
       [] c.pc = "getEnrolledStudents" -> getEnrolledStudents_step(d, c, 201)
       [] OTHER -> addStudentToCourse_step(d, c)

createStudent_step(d, c) ==
  LET finalUniversityId_ == finalUniversityId(d, Undefined, c.user)
      created == studentModel_createStudent(d,
                   [university_id |-> IF Truthy(finalUniversityId_)
                                        THEN finalUniversityId_ ELSE Null,
                    student_number |-> "1001", created_by |-> c.user])
      newCourseIds == SelectSeq(c.list,
                        LAMBDA id : id \notin getStudentCourses(d, c.id))
      inserted == insertStudentCourses(d, c.id, <<c.list[c.k]>>)
  IN CASE c.pc = "findStudentByStudentNumberAndUniversityId" ->
            Result(d, IF /\ Truthy(finalUniversityId_)
                         /\ studentModel_findStudentByStudentNumberAndUniversityId(
                              d, finalUniversityId_, "1001") # {}
                        THEN Done(c, 409)
                        ELSE Goto(c, "validateCoursesExist"))
       [] c.pc = "validateCoursesExist" ->
            Result(d, IF validateCoursesExist(d, c.list) # <<>>
                        THEN Done(c, 404) ELSE Goto(c, "createStudent"))
       [] c.pc = "createStudent" ->
            IF created.error THEN Result(d, Done(c, 500))
            ELSE Result(created.db,
                        [c EXCEPT !.pc = "addStudentToCourses",
                                  !.id = d.nextStudentId])
       [] c.pc = "addStudentToCourses" ->
            Result(d, IF validateCoursesExist(d, c.list) # <<>>
                        THEN Done(c, 404) ELSE Goto(c, "getStudentCourses"))
       [] c.pc = "getStudentCourses" ->
            Result(d, IF newCourseIds = <<>> THEN Done(c, 201)
                      ELSE [c EXCEPT !.pc = "INSERT", !.list = newCourseIds])
       [] c.pc = "INSERT" ->
            Result(inserted.db,
                   IF inserted.error THEN Done(c, 500)
                   ELSE IF c.k < Len(c.list) THEN [c EXCEPT !.k = @ + 1]
                   ELSE Done(c, 201))

updateStudent_step(d, c) ==
  LET found == studentModel_findStudentById(d, c.id)
      role == (CHOOSE u \in authMiddleware(d, c.user) : TRUE).role
      inserted == insertStudentCourses(d, c.id, <<c.list[c.k]>>)
      finished == Done(c, IF c.row THEN 200 ELSE 500)
  IN CASE c.pc = "findStudentById" ->
            Result(d, IF found = {} THEN Done(c, 404)
                      ELSE IF role # "admin" /\ \A x \in found : x.created_by # c.user
                        THEN Done(c, 403)
                      ELSE IF c.list # <<>> THEN Goto(c, "validateCoursesExist")
                      ELSE Goto(c, "updateStudent"))
       [] c.pc = "validateCoursesExist" ->
            Result(d, IF validateCoursesExist(d, c.list) # <<>>
                        THEN Done(c, 404) ELSE Goto(c, "updateStudent"))
       [] c.pc = "updateStudent" ->
            Result(d, [c EXCEPT !.row = found # {},
                                !.pc = IF c.list # <<>>
                                         THEN "replaceStudentCourses" ELSE "DELETE"])
       [] c.pc = "replaceStudentCourses" ->
            Result(d, IF validateCoursesExist(d, c.list) # <<>>
                        THEN Done(c, 404) ELSE Goto(c, "DELETE"))
       [] c.pc = "DELETE" ->
            Result([d EXCEPT !.STUDENT_COURSE = {sc \in @ : sc.student_id # c.id}],
                   IF c.list = <<>> THEN finished ELSE Goto(c, "INSERT"))
       [] c.pc = "INSERT" ->
            Result(inserted.db,
                   IF inserted.error THEN Done(c, 500)
                   ELSE IF c.k < Len(c.list) THEN [c EXCEPT !.k = @ + 1]
                   ELSE finished)

deleteStudent_step(d, c) ==
  LET found == studentModel_findStudentById(d, c.id)
      role == (CHOOSE u \in authMiddleware(d, c.user) : TRUE).role
  IN CASE c.pc = "findStudentById" ->
            Result(d, IF found = {} THEN Done(c, 404)
                      ELSE IF role # "admin" /\ \A x \in found : x.created_by # c.user
                        THEN Done(c, 403)
                      ELSE Goto(c, "deleteStudent"))
       [] c.pc = "deleteStudent" ->
            Result(studentModel_deleteStudent(d, c.id),
                   Done(c, IF found # {} THEN 200 ELSE 500))

deleteCourse_step(d, c) ==
  LET found == findCourseById(d, c.id)
  IN CASE c.pc = "findCourseById" ->
            Result(d, IF found = {} THEN Done(c, 404)
                      ELSE IF \A x \in found : x.instructor_id # c.user
                        THEN Done(c, 403)
                      ELSE Goto(c, "deleteScheduleByCourseId"))
       [] c.pc = "deleteScheduleByCourseId" ->
            Result(deleteScheduleByCourseId(d, c.id), Goto(c, "deleteCourse"))
       [] c.pc = "deleteCourse" ->
            Result(courseModel_deleteCourse(d, c.id),
                   Done(c, IF found # {} THEN 200 ELSE 500))

\* updateCourse with a payload that carries a schedule (list) and no other
\* field: courseModel.updateCourse has nothing to write and reads the course
\* (row: whether it found one)
updateCourse_step(d, c) ==
  LET found == findCourseById(d, c.id)
      created == createScheduleEntry(d, c.id, c.list[c.k])
  IN CASE c.pc = "findCourseById" ->
            Result(d, IF found = {} THEN Done(c, 404)
                      ELSE IF \A x \in found : x.instructor_id # c.user
                        THEN Done(c, 403)
                      ELSE Goto(c, "updateCourse"))
       [] c.pc = "updateCourse" ->
            Result(d, [Goto(c, "deleteScheduleByCourseId") EXCEPT !.row = found # {}])
       [] c.pc = "deleteScheduleByCourseId" ->
            Result(deleteScheduleByCourseId(d, c.id), Goto(c, "createScheduleEntry"))
       [] c.pc = "createScheduleEntry" ->
            Result(created.db,
                   IF created.error THEN Done(c, 500)
                   ELSE NextOf(c, "createScheduleEntry", "getEnrolledStudents"))
       [] c.pc = "getEnrolledStudents" ->
            IF c.row THEN getEnrolledStudents_step(d, c, 200)
            ELSE getEnrolledStudents_step(d, c, 500)

\* links the population may hold when the two requests arrive
Links0 ==
  {[student_id |-> 1, course_id |-> 1, created_at |-> 1],
   [student_id |-> 2, course_id |-> 1, created_at |-> 1],
   [student_id |-> 1, course_id |-> 3, created_at |-> 1]}

InitSteps ==
  /\ USER = Users0
  /\ USER_VERIFICATION = {}
  /\ STUDENT = Students0
  /\ COURSE = Courses0
  /\ COURSE_SCHEDULE = Schedule0
  /\ STUDENT_COURSE \in {{}, Links0}
  /\ nextStudentId = Cardinality(Students0) + 1
  /\ nextCourseId = Cardinality(Courses0) + 1
  /\ NOW = 1
  /\ last = NoRequest
  /\ calls = NoCalls
  /\ workload \in {"steps", "race"}
  /\ IDX_STUDENT_NUMBER_UNIVERSITY \in BOOLEAN
  /\ workload = "steps" => IDX_STUDENT_NUMBER_UNIVERSITY

\* the requests that write links
LinkRequests ==
  {NewCall("enrollStudents", u, id, list, "findCourseById") :
     u \in UserIds, id \in {c.course_id : c \in Courses0},
     list \in {<<1>>, <<1, 2>>}}
  \cup
  {NewCall("updateStudent", u, id, list, "findStudentById") :
     u \in UserIds, id \in {x.student_id : x \in Students0},
     list \in {<<>>, <<1>>, <<1, 3>>}}
  \cup
  {NewCall("createStudent", u, Null, list,
           "findStudentByStudentNumberAndUniversityId") :
     u \in UserIds, list \in {<<1>>, <<1, 3>>}}
  \cup
  {NewCall("createCourse", u, Null, list, "findUserById") :
     u \in UserIds, list \in {<<1>>, <<1, 2>>}}

\* updateCourse requests that replace the schedule
ScheduleRequests ==
  {NewCall("updateCourse", u, id, list, "findCourseById") :
     u \in UserIds, id \in {c.course_id : c \in Courses0},
     list \in {<<Monday9to10>>,
               <<Monday9to10, [day |-> "Friday", start_time |-> "10:00",
                               end_time |-> "23:59"]>>}}

DeleteRequests ==
  {NewCall("deleteStudent", u, id, <<>>, "findStudentById") :
     u \in UserIds, id \in {x.student_id : x \in Students0}}
  \cup
  {NewCall("deleteCourse", u, id, <<>>, "findCourseById") :
     u \in UserIds, id \in {c.course_id : c \in Courses0}}

\* client 1 sends a request that writes links or a schedule or one that
\* deletes, client 2 one that deletes ("steps"); or both clients send a
\* create or a replace of student 1's courses, as an instructor ("race")
SendLinkRequest ==
  /\ workload \in {"steps", "race"}
  /\ \E cl \in Clients, c \in LinkRequests \cup ScheduleRequests :
       /\ calls[cl] = NoCall
       /\ workload = "steps" => cl = 1
       /\ workload = "race" =>
            /\ c.op \notin {"enrollStudents", "updateCourse"}
            /\ c.user # 1
            /\ c.op = "updateStudent" => c.id = 1
       /\ calls' = [calls EXCEPT ![cl] = c]
  /\ UNCHANGED <<USER, USER_VERIFICATION, STUDENT, COURSE, COURSE_SCHEDULE,
                 STUDENT_COURSE,
                 nextStudentId, nextCourseId, IDX_STUDENT_NUMBER_UNIVERSITY,
                 NOW, workload, last>>

SendDeleteRequest ==
  /\ workload = "steps"
  /\ \E cl \in Clients, c \in DeleteRequests :
       calls[cl] = NoCall /\ calls' = [calls EXCEPT ![cl] = c]
  /\ UNCHANGED <<USER, USER_VERIFICATION, STUDENT, COURSE, COURSE_SCHEDULE,
                 STUDENT_COURSE,
                 nextStudentId, nextCourseId, IDX_STUDENT_NUMBER_UNIVERSITY,
                 NOW, workload, last>>

\* the handler of a client is in flight
Running(cl, op) ==
  calls[cl] # NoCall /\ calls[cl].op = op /\ calls[cl].pc # "done"

\* one persistence call of a client's handler ran
RunStep(cl, r) ==
  /\ USER' = r.db.USER
  /\ USER_VERIFICATION' = r.db.USER_VERIFICATION
  /\ STUDENT' = r.db.STUDENT
  /\ COURSE' = r.db.COURSE
  /\ COURSE_SCHEDULE' = r.db.COURSE_SCHEDULE
  /\ STUDENT_COURSE' = r.db.STUDENT_COURSE
  /\ nextStudentId' = r.db.nextStudentId
  /\ nextCourseId' = r.db.nextCourseId
  /\ calls' = [calls EXCEPT ![cl] = r.call]
  /\ UNCHANGED <<IDX_STUDENT_NUMBER_UNIVERSITY, NOW, workload, last>>

StepEnrollStudents ==
  \E cl \in Clients : /\ Running(cl, "enrollStudents")
                      /\ RunStep(cl, enrollStudents_step(db, calls[cl]))

StepUpdateStudent ==
  \E cl \in Clients : /\ Running(cl, "updateStudent")
                      /\ RunStep(cl, updateStudent_step(db, calls[cl]))

StepCreateStudent ==
  \E cl \in Clients : /\ Running(cl, "createStudent")
                      /\ RunStep(cl, createStudent_step(db, calls[cl]))

StepCreateCourse ==
  \E cl \in Clients : /\ Running(cl, "createCourse")
                      /\ RunStep(cl, createCourse_step(db, calls[cl]))

StepUpdateCourse ==
  \E cl \in Clients : /\ Running(cl, "updateCourse")
                      /\ RunStep(cl, updateCourse_step(db, calls[cl]))

StepDeleteStudent ==
  \E cl \in Clients : /\ Running(cl, "deleteStudent")
                      /\ RunStep(cl, deleteStudent_step(db, calls[cl]))

StepDeleteCourse ==
  \E cl \in Clients : /\ Running(cl, "deleteCourse")
                      /\ RunStep(cl, deleteCourse_step(db, calls[cl]))

\* DELETE FROM COURSE is rejected by the database (a lock wait timeout, a
\* lost connection, a row of another table that references the course):
\* db.pool.execute throws and the tables stay as the statement found them
DeleteCourseRejected ==
  \E cl \in Clients :
     /\ Running(cl, "deleteCourse") /\ calls[cl].pc = "deleteCourse"
     /\ RunStep(cl, Result(db, Done(calls[cl], 500)))

NextSteps ==
  \/ SendLinkRequest \/ SendDeleteRequest
  \/ StepEnrollStudents \/ StepUpdateStudent
  \/ StepCreateStudent \/ StepCreateCourse \/ StepUpdateCourse
  \/ StepDeleteStudent \/ StepDeleteCourse
  \/ DeleteCourseRejected

SpecSteps == InitSteps /\ [][NextSteps]_vars

\* course requests while principals also move between universities
InitProfile ==
  /\ InitTables
  /\ workload \in {"courses", "roles"}
  /\ IDX_STUDENT_NUMBER_UNIVERSITY = TRUE

NextProfile ==
  \/ CreateCourse \/ UpdateCourse \/ DeleteCourse \/ UpdateProfile
  \/ CreateStudent \/ UpdateStudent \/ DeleteStudent
  \/ Receive

SpecProfile == InitProfile /\ [][NextProfile]_vars

(***************************************************************************)
(* The course routes with bodies that carry a schedule, among them the     *)
(* schedules the validators reject.                                        *)
(***************************************************************************)
InitSchedules ==
  /\ InitTables
  /\ workload = "schedules"
  /\ IDX_STUDENT_NUMBER_UNIVERSITY = TRUE

NextSchedules == CreateCourse \/ UpdateCourse \/ Receive

SpecSchedules == InitSchedules /\ [][NextSchedules]_vars

(***************************************************************************)
(* registration, e-mail verification and login: auth.service.js,           *)
(* verification.service.js, userVerification.model.js and hash.js.  The    *)
(* auth controller is not among the sources, so a response here is what    *)
(* the service hands it: 200 when the service returns, the statusCode of   *)
(* the Error it throws otherwise (Undefined for an Error without one).     *)
(* A tick of the clock is as long as a code lives (ttlMinutes).            *)
(***************************************************************************)
maxAttempts == 5

\* verification records a run holds before sends stop
MaxVerifications == 4

Emails == {"a@attendify.edu", "b@attendify.edu"}

Passwords == {"StrongPass123!", "WrongPass123!"}

\* codes generateVerificationCode draws, and codes a client submits
Codes == {"123456", "654321"}

\* bcrypt.hash and bcrypt.compare of hash.js: a hash matches the value it
\* was made from and no other
bcrypt_hash(value) == <<"$2b$10$", value>>

bcrypt_compare(value, hash) == hash = bcrypt_hash(value)

findUserByEmail(d, email) == {u \in d.USER : u.email = email}

\* INSERT INTO USER: no request deletes a user, so the next insertId is the
\* number of rows plus one
userModel_createUser(d, userData) ==
  [d EXCEPT !.USER = @ \cup
     {[user_id |-> Cardinality(d.USER) + 1,
       email |-> userData.email,
       password_hash |-> userData.password_hash,
       role |-> IF userData.role # UndefinedStr THEN userData.role
                ELSE "instructor",
       university_id |-> Null]}]

createVerificationCode(d, userId, codeHash, purpose) ==
  [d EXCEPT !.USER_VERIFICATION = @ \cup
     {[verification_id |-> Cardinality(d.USER_VERIFICATION) + 1,
       user_id |-> userId, purpose |-> purpose, code_hash |-> codeHash,
       expires_at |-> d.NOW + 1, consumed_at |-> Null,
       attempt_count |-> 0, created_at |-> d.NOW]}]

\* ... WHERE consumed_at IS NULL AND expires_at > NOW()
\*     ORDER BY created_at DESC LIMIT 1
findActiveVerificationByUserAndPurpose(d, userId, purpose) ==
  LET active == {v \in d.USER_VERIFICATION :
                   /\ v.user_id = userId /\ v.purpose = purpose
                   /\ v.consumed_at = Null /\ v.expires_at > d.NOW}
  IN FirstRow(active, [v \in active |-> 0 - v.created_at])

markVerificationAsConsumed(d, verificationId) ==
  [d EXCEPT !.USER_VERIFICATION =
     {IF v.verification_id = verificationId
        THEN [v EXCEPT !.consumed_at = d.NOW] ELSE v : v \in @}]

\* mutant: a wrong code is not counted
incrementAttemptCount_notCounted(d, verificationId) == d

incrementAttemptCount(d, verificationId) ==
  [d EXCEPT !.USER_VERIFICATION =
     {IF v.verification_id = verificationId
        THEN [v EXCEPT !.attempt_count = @ + 1] ELSE v : v \in @}]

\* mutant: earlier records stay as they are when a new code is sent
invalidateActiveVerifications_kept(d, userId, purpose) == d

\* UPDATE ... SET consumed_at = NOW() WHERE ... consumed_at IS NULL
invalidateActiveVerifications(d, userId, purpose) ==
  [d EXCEPT !.USER_VERIFICATION =
     {IF v.user_id = userId /\ v.purpose = purpose /\ v.consumed_at = Null
        THEN [v EXCEPT !.consumed_at = d.NOW] ELSE v : v \in @}]

hasConsumedVerification(d, userId, purpose) ==
  \E v \in d.USER_VERIFICATION :
     v.user_id = userId /\ v.purpose = purpose /\ v.consumed_at # Null

\* verification.service.js; code is the code generateVerificationCode drew
sendVerificationCode(d, userId, purpose, code) ==
  IF findUserById(d, userId) = {}
    THEN Reply(Undefined, "User not found", d)
  ELSE Reply(200, "", createVerificationCode(
                        invalidateActiveVerifications(d, userId, purpose),
                        userId, bcrypt_hash(code), purpose))

verifyCode(d, userId, code, purpose) ==
  LET found == findActiveVerificationByUserAndPurpose(d, userId, purpose)
      verification == CHOOSE v \in found : TRUE
  IN IF found = {}
       THEN Reply(Undefined, "No active verification code found, or it has expired", d)
     ELSE IF verification.attempt_count >= maxAttempts
       THEN Reply(Undefined, "Too many verification attempts. Please request a new code.", d)
     ELSE IF ~bcrypt_compare(code, verification.code_hash)
       THEN Reply(Undefined, "Invalid verification code",
                  incrementAttemptCount(d, verification.verification_id))
     ELSE ReplyWith(200, "",
                    markVerificationAsConsumed(d, verification.verification_id),
                    {verification.verification_id}, <<>>)

\* auth.service.js
authService_register(d, userData, code) ==
  LET created == userModel_createUser(d,
                   [email |-> userData.email,
                    password_hash |-> bcrypt_hash(userData.password),
                    role |-> userData.role])
      sent == sendVerificationCode(created, Cardinality(d.USER) + 1, "signup", code)
  IN IF findUserByEmail(d, userData.email) # {}
       THEN Reply(409, "Email already registered", d)
     ELSE IF sent.statusCode # 200 THEN sent
     ELSE ReplyWith(200, "", sent.db, {Cardinality(d.USER) + 1}, <<>>)

authService_login(d, email, password) ==
  LET found == findUserByEmail(d, email)
      user == CHOOSE u \in found : TRUE
  IN IF found = {}
       THEN Reply(401, "Invalid credentials", d)
     ELSE IF ~bcrypt_compare(password, user.password_hash)
       THEN Reply(401, "Invalid credentials", d)
     ELSE IF ~hasConsumedVerification(d, user.user_id, "signup")
       THEN Reply(403, "Email not verified. Please verify your email before logging in.", d)
     ELSE ReplyWith(200, "", d, {user.user_id}, <<>>)

authService_verifyEmail(d, email, code) ==
  LET found == findUserByEmail(d, email)
      verified == verifyCode(d, (CHOOSE u \in found : TRUE).user_id, code, "signup")
  IN IF found = {}
       THEN Reply(404, "User not found", d)
     ELSE IF verified.statusCode # 200 THEN verified
     ELSE ReplyWith(200, "Email successfully verified.", verified.db,
                    verified.data, <<>>)

authService_resendVerificationCode(d, email, code) ==
  LET found == findUserByEmail(d, email)
      user == CHOOSE u \in found : TRUE
      sent == sendVerificationCode(d, user.user_id, "signup", code)
  IN IF found = {}
       THEN Reply(404, "User not found", d)
     ELSE IF hasConsumedVerification(d, user.user_id, "signup")
       THEN Reply(400, "Email is already verified", d)
     ELSE IF sent.statusCode # 200 THEN sent
     ELSE Reply(200, "Verification code has been sent to your email.", sent.db)

\* one user has registered and verified the address a moment ago, the other
\* address is not registered yet
InitAuth ==
  /\ USER = {[user_id |-> 1, email |-> "b@attendify.edu",
              password_hash |-> bcrypt_hash("StrongPass123!"),
              role |-> "instructor", university_id |-> Null]}
  /\ USER_VERIFICATION =
       {[verification_id |-> 1, user_id |-> 1, purpose |-> "signup",
         code_hash |-> bcrypt_hash("123456"), expires_at |-> 2,
         consumed_at |-> 1, attempt_count |-> 0, created_at |-> 1]}
  /\ STUDENT = {}
  /\ COURSE = {}
  /\ COURSE_SCHEDULE = {}
  /\ STUDENT_COURSE = {}
  /\ nextStudentId = 1
  /\ nextCourseId = 1
  /\ NOW = 1
  /\ last = NoRequest
  /\ calls = NoCalls
  /\ workload = "auth"
  /\ IDX_STUDENT_NUMBER_UNIVERSITY = TRUE

\* POST /api/auth/register
Register ==
  /\ Idle /\ workload = "auth"
  /\ \E email \in Emails, code \in Codes :
       LET body == [email |-> email, password |-> "StrongPass123!",
                    role |-> UndefinedStr]
           r == authService_register(db, body, code)
       IN /\ Cardinality(r.db.USER_VERIFICATION) <= MaxVerifications
          /\ Respond("register", Null, Null, body, r)

\* POST /api/auth/login
Login ==
  /\ Idle /\ workload = "auth"
  /\ \E email \in Emails, password \in Passwords :
       Respond("login", Null, Null, [email |-> email, password |-> password],
               authService_login(db, email, password))

\* POST /api/auth/verify-email
VerifyEmail ==
  /\ Idle /\ workload = "auth"
  /\ \E email \in Emails, code \in Codes :
       Respond("verifyEmail", Null, Null, [email |-> email, code |-> code],
               authService_verifyEmail(db, email, code))

\* POST /api/auth/resend-verification
ResendVerificationCode ==
  /\ Idle /\ workload = "auth"
  /\ \E email \in Emails, code \in Codes :
       LET r == authService_resendVerificationCode(db, email, code)
       IN /\ Cardinality(r.db.USER_VERIFICATION) <= MaxVerifications
          /\ Respond("resendVerificationCode", Null, Null, [email |-> email], r)

NextAuth ==
  \/ Register \/ Login \/ VerifyEmail \/ ResendVerificationCode
  \/ Tick \/ Receive

SpecAuth == InitAuth /\ [][NextAuth]_vars

(***************************************************************************)
(* verifyCode one persistence call at a time, for two clients that submit  *)
(* codes for the same user.  Between the SELECT of the active record and   *)
(* the UPDATE that counts a wrong code or consumes the record the handler  *)
(* awaits bcrypt.compare, and the other client's handler may run.  A call  *)
(* keeps the record it read in row.                                        *)
(***************************************************************************)
verifyCode_step(d, c) ==
  LET found == findActiveVerificationByUserAndPurpose(d, c.user, "signup")
      verification == CHOOSE v \in found : TRUE
  IN CASE c.pc = "findActiveVerificationByUserAndPurpose" ->
            Result(d, IF found = {} THEN Done(c, Undefined)
                      ELSE IF verification.attempt_count >= maxAttempts
                        THEN Done(c, Undefined)
                      ELSE IF ~bcrypt_compare(c.list[1], verification.code_hash)
                        THEN [Goto(c, "incrementAttemptCount")
                                EXCEPT !.row = verification]
                      ELSE [Goto(c, "markVerificationAsConsumed")
                              EXCEPT !.row = verification])
       [] c.pc = "incrementAttemptCount" ->
            Result(incrementAttemptCount(d, c.row.verification_id),
                   Done(c, Undefined))
       [] c.pc = "markVerificationAsConsumed" ->
            Result(markVerificationAsConsumed(d, c.row.verification_id),
                   Done(c, 200))

\* user 2 has registered: sendVerificationCode has stored the record of the
\* code "123456"
InitVerify ==
  /\ USER = Users0
  /\ USER_VERIFICATION =
       {[verification_id |-> 1, user_id |-> 2, purpose |-> "signup",
         code_hash |-> bcrypt_hash("123456"), expires_at |-> 2,
         consumed_at |-> Null, attempt_count |-> 0, created_at |-> 1]}
  /\ STUDENT = {}
  /\ COURSE = {}
  /\ COURSE_SCHEDULE = {}
  /\ STUDENT_COURSE = {}
  /\ nextStudentId = 1
  /\ nextCourseId = 1
  /\ NOW = 1
  /\ last = NoRequest
  /\ calls = NoCalls
  /\ workload = "verify"
  /\ IDX_STUDENT_NUMBER_UNIVERSITY = TRUE

\* a client submits a code for user 2, again once it has its answer
SendVerifyCode ==
  /\ workload = "verify"
  /\ \E cl \in Clients, code \in Codes :
       /\ IF calls[cl] = NoCall THEN TRUE ELSE calls[cl].pc = "done"
       /\ calls' = [calls EXCEPT ![cl] =
                      NewCall("verifyCode", 2, Null, <<code>>,
                              "findActiveVerificationByUserAndPurpose")]
  /\ UNCHANGED <<USER, USER_VERIFICATION, STUDENT, COURSE, COURSE_SCHEDULE,
                 STUDENT_COURSE,
                 nextStudentId, nextCourseId, IDX_STUDENT_NUMBER_UNIVERSITY,
                 NOW, workload, last>>

StepVerifyCode ==
  \E cl \in Clients : /\ Running(cl, "verifyCode")
                      /\ RunStep(cl, verifyCode_step(db, calls[cl]))

NextVerify == SendVerifyCode \/ StepVerifyCode

SpecVerify == InitVerify /\ [][NextVerify]_vars

(***************************************************************************)
(* properties.  They read the answered request in last: who sent what, the *)
(* response, and the tables before (last.before) and after (the variables) *)
(***************************************************************************)
ActorRole == (CHOOSE u \in last.before.USER : u.user_id = last.user).role

ActorUniversity == (CHOOSE u \in last.before.USER : u.user_id = last.user).university_id

UniversityOf(users, userId) ==
  IF \E u \in users : u.user_id = userId
    THEN (CHOOSE u \in users : u.user_id = userId).university_id
    ELSE Null

TablesUnchanged == db = last.before

C2_CourseCodeUnique ==
  \A c1, c2 \in COURSE :
    (/\ c1.course_id # c2.course_id
     /\ UniversityOf(USER, c1.instructor_id) # Null
     /\ UniversityOf(USER, c1.instructor_id) = UniversityOf(USER, c2.instructor_id))
    => c1.course_code # c2.course_code

C4_TargetUniversityChecked ==
  (/\ last.op = "updateStudent"
   /\ last.body.universityId \in Universities
   /\ last.body.createdBy # Null) =>
    \A s \in last.before.STUDENT :
      (/\ s.student_id = last.id
       /\ s.university_id # last.body.universityId
       /\ ActorRole = "admin"
          \/ (s.created_by = last.user
              /\ last.body.createdBy \in {Undefined, s.created_by})
       /\ \E o \in last.before.STUDENT :
            /\ o.student_id # s.student_id
            /\ o.university_id = last.body.universityId
            /\ o.student_number = IF last.body.studentNumber # UndefinedStr
                                    THEN last.body.studentNumber
                                    ELSE s.student_number)
      => last.statusCode = 409 /\ TablesUnchanged

\* C5: a create whose tenant cannot be resolved (createCourse by a principal
\* without university; createStudent without universityId by a creator
\* without university) is rejected with 409 when any existing record has the
\* key.
C5_GlobalFallback ==
  /\ (/\ last.op = "createCourse"
      /\ ActorUniversity = Null
      /\ \E c \in last.before.COURSE : c.course_code = last.body.courseCode)
     => last.statusCode = 409 /\ TablesUnchanged
  /\ (/\ last.op = "createStudent"
      /\ last.body.universityId = Undefined
      /\ last.body.createdBy # Null
      /\ UniversityOf(last.before.USER,
                      IF last.body.createdBy # Undefined
                        THEN last.body.createdBy ELSE last.user) = Null
      /\ \E s \in last.before.STUDENT :
           s.student_number = last.body.studentNumber)
     => last.statusCode = 409 /\ TablesUnchanged

C10_OwnerNeverNull ==
  /\ \A s \in STUDENT : s.created_by # Null /\ s.created_by \in UserIds
  /\ \A c \in COURSE : c.instructor_id # Null /\ c.instructor_id \in UserIds

\* an admin handed a student to another owner, after a create that named no
\* owner
C10_Witness ==
  /\ last.op = "updateStudent"
  /\ last.statusCode = 200
  /\ \E s \in last.before.STUDENT, s2 \in STUDENT :
       /\ s.student_id = last.id
       /\ s2.student_id = last.id
       /\ s.created_by # s2.created_by
       /\ s2.created_by = last.body.createdBy

\* C11: a listing of the students or the courses of instructor X is
\* permitted for every X when the requester is an admin, and otherwise only
\* for X = the requester's id; a permitted one answers with exactly X's
\* records (or that X is no user), any other is answered Forbidden, with no
\* record in the response
C11_ListingRule3 ==
  last.op \in {"getStudentsByInstructor", "getCoursesByInstructorId"} =>
    LET permitted == ActorRole = "admin" \/ last.id = last.user
        owned == IF last.op = "getStudentsByInstructor"
                   THEN {s.student_id : s \in {x \in STUDENT : x.created_by = last.id}}
                   ELSE {c.course_id : c \in {x \in COURSE : x.instructor_id = last.id}}
    IN /\ TablesUnchanged
       /\ ~permitted => last.statusCode = 403 /\ last.data = {}
       /\ permitted /\ last.id \in UserIds =>
            last.statusCode = 200 /\ last.data = owned
       /\ permitted /\ last.id \notin UserIds => last.statusCode = 404

\* an instructor asked for the students of another one, who has some
C11_Witness ==
  /\ last.op = "getStudentsByInstructor"
  /\ ActorRole # "admin" /\ last.id # last.user
  /\ \E s \in STUDENT : s.created_by = last.id
  /\ last.statusCode = 403

\* C12: getStudentById and getCourseById return an existing resource if and
\* only if the requester is an admin or the resource's owner; every other
\* authenticated requester is answered Forbidden
C12_ReadRule1 ==
  last.op \in {"getStudentById", "getCourseById"} =>
    LET owners == IF last.op = "getStudentById"
                    THEN {s.created_by : s \in {x \in STUDENT : x.student_id = last.id}}
                    ELSE {c.instructor_id : c \in {x \in COURSE : x.course_id = last.id}}
        allowed == ActorRole = "admin" \/ last.user \in owners
    IN owners # {} =>
         /\ allowed => last.statusCode = 200 /\ last.data = {last.id}
         /\ ~allowed => last.statusCode = 403 /\ last.data = {}

\* the rows of STUDENT_COURSE for one student and one course
Links(rows, studentId, courseId) ==
  {sc \in rows : sc.student_id = studentId /\ sc.course_id = courseId}

\* the ids a list holds
Elements(list) == {list[i] : i \in DOMAIN list}

\* C13: enrollStudents sent by the course's owner for existing students
\* succeeds whether or not a student is enrolled already (so also when it is
\* sent twice in sequence); afterwards there is exactly one row for each
\* (student, course) pair, a row that was there before the call is kept with
\* its created_at, and no other row changes
C13_EnrollIdempotent ==
  ( /\ last.op = "enrollStudents"
    /\ last.body.studentIds # <<>>
    /\ \E c \in last.before.COURSE : c.course_id = last.id /\ c.instructor_id = last.user
    /\ \A id \in Elements(last.body.studentIds) :
         \E s \in last.before.STUDENT : s.student_id = id )
  => /\ last.statusCode = 200
     /\ last.before.STUDENT_COURSE \subseteq STUDENT_COURSE
     /\ \A id \in Elements(last.body.studentIds) :
          /\ Cardinality(Links(STUDENT_COURSE, id, last.id)) = 1
          /\ Links(last.before.STUDENT_COURSE, id, last.id) = {} =>
               \A sc \in Links(STUDENT_COURSE, id, last.id) : sc.created_at = NOW
     /\ \A sc \in STUDENT_COURSE \ last.before.STUDENT_COURSE :
          sc.course_id = last.id /\ sc.student_id \in Elements(last.body.studentIds)

\* the second of two calls, sent a second after the first: the row still
\* carries the time of the first
C13_Witness ==
  /\ last.op = "enrollStudents" /\ last.statusCode = 200
  /\ \E id \in Elements(last.body.studentIds) :
       \E sc \in Links(last.before.STUDENT_COURSE, id, last.id) :
          sc.created_at < NOW /\ sc \in STUDENT_COURSE

\* the rows of STUDENT_COURSE of one student
LinksOf(rows, studentId) == {sc \in rows : sc.student_id = studentId}

\* C14: after a successful updateStudent of student s that carries courseIds
\* D, all of them existing courses, s is enrolled in exactly the courses of
\* D (in none when D is empty), and the rows of every other student are the
\* ones from before
C14_ReplaceResult ==
  ( /\ last.op = "updateStudent" /\ last.body.hasCourseIds
    /\ last.statusCode = 200
    /\ \A id \in Elements(last.body.courseIds) :
         \E c \in last.before.COURSE : c.course_id = id )
  => /\ {sc.course_id : sc \in LinksOf(STUDENT_COURSE, last.id)}
          = Elements(last.body.courseIds)
     /\ \A sc \in LinksOf(STUDENT_COURSE, last.id) :
          Cardinality(Links(STUDENT_COURSE, last.id, sc.course_id)) = 1
     /\ {sc \in STUDENT_COURSE : sc.student_id # last.id}
          = {sc \in last.before.STUDENT_COURSE : sc.student_id # last.id}

\* an empty list cleared the links of a student while another one has links
C14_Witness ==
  /\ last.op = "updateStudent" /\ last.statusCode = 200
  /\ last.body.hasCourseIds /\ last.body.courseIds = <<>>
  /\ LinksOf(last.before.STUDENT_COURSE, last.id) # {}
  /\ LinksOf(STUDENT_COURSE, last.id) = {}
  /\ \E sc \in STUDENT_COURSE : sc.student_id # last.id

\* C15: a successful replace of a student's courses is a diff: the link to a
\* course that is in both the current and the desired set is the row from
\* before with its created_at, the links to the other current courses are
\* removed, and the links to the other desired courses are created now
C15_ReplaceIsDiff ==
  ( /\ last.op = "updateStudent" /\ last.body.hasCourseIds
    /\ last.statusCode = 200 )
  => LET current == LinksOf(last.before.STUDENT_COURSE, last.id)
         desired == Elements(last.body.courseIds)
     IN LinksOf(STUDENT_COURSE, last.id)
          = {sc \in current : sc.course_id \in desired}
            \cup {[student_id |-> last.id, course_id |-> c, created_at |-> NOW] :
                    c \in desired \ {sc.course_id : sc \in current}}

\* the ids a link request names that are no row of the table they refer to
MissingOfRequest ==
  IF last.op \in {"createStudent", "updateStudent"}
    THEN IF last.op = "updateStudent" /\ ~last.body.hasCourseIds THEN {}
         ELSE {id \in Elements(last.body.courseIds) :
                 ~\E c \in last.before.COURSE : c.course_id = id}
  ELSE IF last.op \in {"enrollStudents", "createCourse"}
    THEN {id \in Elements(last.body.studentIds) :
            ~\E x \in last.before.STUDENT : x.student_id = id}
  ELSE {}

\* the request passes the checks that come before the look-up of the ids:
\* the anchor exists, the requester may change it, its key is free
PassesEarlierChecks ==
  LET b == last.before
  IN CASE last.op = "enrollStudents" ->
            \E c \in b.COURSE : c.course_id = last.id /\ c.instructor_id = last.user
       [] last.op = "updateStudent" ->
            \E x \in b.STUDENT : /\ x.student_id = last.id
                                  /\ (ActorRole = "admin" \/ x.created_by = last.user)
       [] last.op = "createStudent" ->
            ~\E x \in b.STUDENT : /\ Truthy(ActorUniversity)
                                   /\ x.university_id = ActorUniversity
                                   /\ x.student_number = last.body.studentNumber
       [] last.op = "createCourse" ->
            findCourseByCode(b, last.body.courseCode, ActorUniversity) = {}
       [] OTHER -> FALSE

\* C16: enrollStudents, createStudent or updateStudent with courseIds, and
\* createCourse with studentIds, sent with a list that names at least one id
\* of no record, change no row of any table: no link is added or removed and
\* the student or course is neither created nor updated; the answer is never
\* a success, and it is NotFound whenever the request passes the checks that
\* come before the look-up
C16_AllOrNothingValidation ==
  MissingOfRequest # {} =>
    /\ TablesUnchanged
    /\ last.statusCode \in {403, 404, 409}
    /\ PassesEarlierChecks => last.statusCode = 404

\* the owner enrolls an existing and a missing student: 404, nothing written
C16_Witness ==
  /\ last.op = "enrollStudents" /\ last.statusCode = 404
  /\ PassesEarlierChecks
  /\ MissingOfRequest # {}
  /\ \E id \in Elements(last.body.studentIds) : id \notin MissingOfRequest
  /\ TablesUnchanged

\* C17: a link request rejected with NotFound for ids of no record names in
\* its error every id of its list that is no record, for course ids sent
\* from the student side and for student ids sent to enrollStudents and
\* createCourse alike
C17_NotFoundEnumeratesAll ==
  ( /\ MissingOfRequest # {}
    /\ PassesEarlierChecks
    /\ last.statusCode = 404 )
  => Elements(last.missing) = MissingOfRequest

\* C18: after a successful deleteCourse of c the course is gone and no row
\* of COURSE_SCHEDULE or STUDENT_COURSE names c; after a successful
\* deleteStudent of s the student is gone and no row of STUDENT_COURSE names
\* s; the rows of the other courses and students stay
C18_CascadeComplete ==
  /\ (last.op = "deleteCourse" /\ last.statusCode = 200) =>
       /\ ~\E c \in COURSE : c.course_id = last.id
       /\ COURSE_SCHEDULE =
            {e \in last.before.COURSE_SCHEDULE : e.course_id # last.id}
       /\ STUDENT_COURSE =
            {sc \in last.before.STUDENT_COURSE : sc.course_id # last.id}
  /\ (last.op = "deleteStudent" /\ last.statusCode = 200) =>
       /\ ~\E x \in STUDENT : x.student_id = last.id
       /\ STUDENT_COURSE =
            {sc \in last.before.STUDENT_COURSE : sc.student_id # last.id}
       /\ COURSE_SCHEDULE = last.before.COURSE_SCHEDULE

\* a course with two schedule entries and two enrolled students was deleted
\* while another course keeps a link
C18_Witness ==
  /\ last.op = "deleteCourse" /\ last.statusCode = 200
  /\ Cardinality({e \in last.before.COURSE_SCHEDULE : e.course_id = last.id}) = 2
  /\ Cardinality({sc \in last.before.STUDENT_COURSE : sc.course_id = last.id}) = 2
  /\ STUDENT_COURSE # {}

\* C19: in every reachable state, also while a handler that writes links
\* (enrollStudents, createStudent, updateStudent, createCourse) and a
\* deleteStudent or deleteCourse run their persistence calls interleaved,
\* every row of STUDENT_COURSE names a student that exists and a course that
\* exists
C19_ReferentialIntegrity ==
  \A sc \in STUDENT_COURSE :
     /\ \E x \in STUDENT : x.student_id = sc.student_id
     /\ \E c \in COURSE : c.course_id = sc.course_id

\* a delete ran between the look-up of a link request and its INSERT: the
\* foreign key rejected the row and the link request failed
C19_Witness ==
  /\ calls[1] # NoCall /\ calls[2] # NoCall
  /\ calls[1].op \in {"enrollStudents", "createStudent", "updateStudent", "createCourse"}
  /\ calls[1].pc = "done" /\ calls[1].statusCode = 500
  /\ calls[2].op \in {"deleteStudent", "deleteCourse"}
  /\ calls[2].pc = "done" /\ calls[2].statusCode = 200

\* the course row and the rows that depend on it
CourseWithDependents(d, courseId) ==
  [course |-> {c \in d.COURSE : c.course_id = courseId},
   schedule |-> {e \in d.COURSE_SCHEDULE : e.course_id = courseId},
   links |-> {sc \in d.STUDENT_COURSE : sc.course_id = courseId}]

\* C20: when a deleteCourse has answered, whatever its outcome (also when
\* the delete of the course row was rejected or found no row after the
\* schedule rows were deleted), and no request for anything else ran beside
\* it, either the course, its schedule rows and its links are all gone, or
\* all of them are exactly as they were when the request arrived
C20_DeleteCourseAtomic ==
  \A cl \in Clients :
     ( /\ calls[cl] # NoCall
       /\ calls[cl].op = "deleteCourse" /\ calls[cl].pc = "done"
       /\ \A o \in Clients \ {cl} :
            \/ calls[o] = NoCall
            \/ /\ calls[o].op = "deleteCourse" /\ calls[o].pc = "done"
               /\ calls[o].id = calls[cl].id )
     => \/ CourseWithDependents(db, calls[cl].id)
             = [course |-> {}, schedule |-> {}, links |-> {}]
        \/ CourseWithDependents(db, calls[cl].id)
             = CourseWithDependents(calls[cl].before, calls[cl].id)

\* the handler of a client has answered
Answered(cl) == calls[cl] # NoCall /\ calls[cl].pc = "done"

\* C21: when two createCourse requests, or two createStudent requests, of
\* the same principal of a university carry the same key and have both been
\* answered, whatever the order of their persistence calls, at most one row
\* with that key exists in that university and each request is answered
\* with 201, or with 409 (404 for a missing link target), never another
\* status.
C21_CreateRaceConflict ==
  LET university == UniversityOf(USER, calls[1].user)
  IN (/\ \A cl \in Clients : Answered(cl)
      /\ calls[1].op = calls[2].op
      /\ calls[1].user = calls[2].user
      /\ Truthy(university))
     =>
     /\ calls[1].op = "createCourse" =>
          /\ Cardinality({c \in COURSE :
                 /\ c.course_code = "CS201"
                 /\ UniversityOf(USER, c.instructor_id) = university}) <= 1
          /\ \A cl \in Clients : calls[cl].statusCode \in {201, 409, 404}
     /\ calls[1].op = "createStudent" =>
          /\ Cardinality({x \in STUDENT :
                 /\ x.student_number = "1001"
                 /\ x.university_id = university}) <= 1
          /\ \A cl \in Clients : calls[cl].statusCode \in {201, 409, 404}

\* C22: when createCourse or createStudent is answered with an error, no
\* course or student row the call inserted, and no enrollment row of it,
\* is in the tables.
C22_NoPartialCreate ==
  \A cl \in Clients :
     (Answered(cl) /\ calls[cl].statusCode >= 400 /\ calls[cl].id # Null) =>
       /\ calls[cl].op = "createCourse" =>
            /\ findCourseById(db, calls[cl].id) = {}
            /\ \A sc \in STUDENT_COURSE : sc.course_id # calls[cl].id
       /\ calls[cl].op = "createStudent" =>
            /\ studentModel_findStudentById(db, calls[cl].id) = {}
            /\ \A sc \in STUDENT_COURSE : sc.student_id # calls[cl].id

\* C23: when two updateStudent requests that replace the courses of the same
\* student have both been answered, whatever the order of their persistence
\* calls, the student's enrollments are exactly the desired set of one of
\* the requests that was let through.
C23_ConcurrentReplace ==
  LET desired == {Elements(calls[cl].list) :
                    cl \in {x \in Clients : calls[x].statusCode \notin {403, 404}}}
  IN (/\ \A cl \in Clients : Answered(cl) /\ calls[cl].op = "updateStudent"
      /\ calls[1].id = calls[2].id
      /\ desired # {})
     => {sc.course_id : sc \in LinksOf(STUDENT_COURSE, calls[1].id)} \in desired

\* C24: removeStudents sent by the course's owner with a list R of student
\* ids succeeds, whether or not a student of R is enrolled or exists;
\* afterwards the enrollments are those from before without the pairs
\* (student of R, this course), and no other table has changed.
C24_UnlinkExact ==
  ( /\ last.op = "removeStudents"
    /\ last.body.studentIds # <<>>
    /\ \E c \in last.before.COURSE :
          c.course_id = last.id /\ c.instructor_id = last.user )
  => /\ last.statusCode = 200
     /\ STUDENT_COURSE =
          {sc \in last.before.STUDENT_COURSE :
             ~(/\ sc.course_id = last.id
               /\ sc.student_id \in Elements(last.body.studentIds))}
     /\ STUDENT = last.before.STUDENT
     /\ COURSE = last.before.COURSE
     /\ COURSE_SCHEDULE = last.before.COURSE_SCHEDULE

\* an enrolled student and an id of no student are named; the student's
\* enrollment in another course is still there
C24_Witness ==
  /\ last.op = "removeStudents" /\ last.statusCode = 200
  /\ last.body.studentIds = <<1, 9>>
  /\ Links(last.before.STUDENT_COURSE, 1, last.id) # {}
  /\ Links(STUDENT_COURSE, 1, last.id) = {}
  /\ \E sc \in STUDENT_COURSE : sc.student_id = 1 /\ sc.course_id # last.id

\* C25: a course row that appears was inserted by a createCourse request
\* and carries the caller as instructor_id, whatever instructorId the body
\* names; a course row that stays keeps its instructor_id, through every
\* request of every principal (updateCourse among them).
C25_OwnerFixedAtCreation ==
  [][\A c \in COURSE' :
       IF \E o \in COURSE : o.course_id = c.course_id
         THEN \A o \in COURSE :
                o.course_id = c.course_id => o.instructor_id = c.instructor_id
         ELSE /\ last'.op = "createCourse"
              /\ c.course_id = last'.id
              /\ c.instructor_id = last'.user]_vars

\* a course created with another user's id in the body belongs to the
\* caller
C25_Witness ==
  /\ last.op = "createCourse" /\ last.statusCode = 201
  /\ Truthy(last.body.instructorId) /\ last.body.instructorId # last.user
  /\ \E c \in COURSE : c.course_id = last.id /\ c.instructor_id = last.user

\* C26: deleteCourse sent by an authenticated user for a course of another
\* instructor is answered with 403, and no table has changed.
C26_DeleteByNonOwnerForbidden ==
  ( /\ last.op = "deleteCourse"
    /\ \E c \in last.before.COURSE :
          c.course_id = last.id /\ c.instructor_id # last.user )
  => last.statusCode = 403 /\ TablesUnchanged

\* login lets the user of an address in: it has a consumed signup record
Verified(d, email) ==
  \E u \in findUserByEmail(d, email) :
     hasConsumedVerification(d, u.user_id, "signup")

\* C27: a login with the right credentials is answered 200 when the user is
\* verified and 403 'Email not verified...' when not; and a user becomes
\* verified only in a step that is a successful verifyEmail of that user,
\* with the code of a record of that user that is neither consumed nor
\* expired.  So no sequence of register, resendVerificationCode, verifyEmail
\* and login lets a user log in who never submitted a right code.
C27_LoginRequiresVerifiedEmail ==
  [][/\ (last'.op = "login" /\ last' # last /\ last'.statusCode # 401) =>
          IF Verified(db, last'.body.email)
            THEN last'.statusCode = 200
            ELSE /\ last'.statusCode = 403
                 /\ last'.message = "Email not verified. Please verify your email before logging in."
     /\ \A email \in Emails :
          (Verified(db', email) /\ ~Verified(db, email)) =>
             /\ last'.op = "verifyEmail" /\ last'.statusCode = 200
             /\ last'.body.email = email
             /\ \E u \in findUserByEmail(db, email), v \in USER_VERIFICATION :
                   /\ v.user_id = u.user_id
                   /\ v.consumed_at = Null /\ v.expires_at > NOW
                   /\ bcrypt_compare(last'.body.code, v.code_hash)]_vars

\* the record a verifyEmail request meets: the user's active one
RecordOfRequest ==
  UNION {findActiveVerificationByUserAndPurpose(last.before, u.user_id, "signup") :
           u \in findUserByEmail(last.before, last.body.email)}

\* C28: a verifyCode that meets a record with maxAttempts wrong codes
\* counted is rejected, whatever code it carries, and changes nothing (the
\* record is not consumed); below the limit a wrong code is rejected and
\* adds exactly one to the record's attempt_count and changes nothing else,
\* and the right code consumes the record and leaves attempt_count as it
\* was.  attempt_count never exceeds maxAttempts.
C28_AttemptsLimited ==
  /\ \A v \in USER_VERIFICATION : v.attempt_count <= maxAttempts
  /\ last.op = "verifyEmail" =>
       \A v \in RecordOfRequest :
          IF v.attempt_count >= maxAttempts
            THEN last.statusCode # 200 /\ TablesUnchanged
          ELSE IF ~bcrypt_compare(last.body.code, v.code_hash)
            THEN /\ last.statusCode # 200
                 /\ db = incrementAttemptCount(last.before, v.verification_id)
                 /\ [v EXCEPT !.attempt_count = @ + 1] \in USER_VERIFICATION
          ELSE /\ last.statusCode = 200
               /\ [v EXCEPT !.consumed_at = NOW] \in USER_VERIFICATION

\* the right code, sent after maxAttempts wrong ones, is rejected
C28_Witness ==
  /\ last.op = "verifyEmail" /\ last.statusCode # 200
  /\ last.message = "Too many verification attempts. Please request a new code."
  /\ \E v \in RecordOfRequest :
        /\ v.attempt_count = maxAttempts
        /\ bcrypt_compare(last.body.code, v.code_hash)
        /\ v \in USER_VERIFICATION

\* C29: every COURSE_SCHEDULE row has one of the seven weekday names as its
\* day and an end time after its start time, after every sequence of
\* createCourse and updateCourse requests, accepted or rejected.
C29_ScheduleValid ==
  \A e \in COURSE_SCHEDULE :
     /\ e.day \in Weekdays
     /\ e.start_time \in DOMAIN hhmm /\ e.end_time \in DOMAIN hhmm
     /\ hhmm[e.end_time] > hhmm[e.start_time]

\* an update replaced the schedule a create had stored by two entries
C29_Witness ==
  /\ last.op = "updateCourse" /\ last.statusCode = 200
  /\ Len(last.body.schedule) = 2
  /\ \E e \in last.before.COURSE_SCHEDULE : e.course_id = last.id
  /\ Cardinality({e \in COURSE_SCHEDULE : e.course_id = last.id}) = 2

\* the students that rows enrol in a course
EnrolledIn(rows, courseId) ==
  {sc.student_id : sc \in {x \in rows : x.course_id = courseId}}

\* C30: after an enrollStudents(course, A) answered 200 the students enrolled
\* in the course are the ones from before united with A; the rows inserted
\* are rows of this course for students of A that were not enrolled, stamped
\* with the time of the call; every row from before is still there as it
\* was, so the rows of every other course are the same set, created_at
\* included.
C30_EnrollIsUnion ==
  (last.op = "enrollStudents" /\ last.statusCode = 200)
  => LET A == Elements(last.body.studentIds)
         was == last.before.STUDENT_COURSE
     IN /\ EnrolledIn(STUDENT_COURSE, last.id) = EnrolledIn(was, last.id) \cup A
        /\ \A sc \in STUDENT_COURSE \ was :
             /\ sc.course_id = last.id
             /\ sc.student_id \in A \ EnrolledIn(was, last.id)
             /\ sc.created_at = NOW
        /\ was \subseteq STUDENT_COURSE
        /\ {sc \in STUDENT_COURSE : sc.course_id # last.id}
             = {sc \in was : sc.course_id # last.id}
        /\ Cardinality(STUDENT_COURSE) - Cardinality(was)
             = Cardinality(A \ EnrolledIn(was, last.id))

\* a call that names a student already enrolled and one that is not, the
\* latter enrolled in another course since an earlier second
C30_Witness ==
  /\ last.op = "enrollStudents" /\ last.statusCode = 200
  /\ LET A == Elements(last.body.studentIds)
         was == last.before.STUDENT_COURSE
     IN /\ A \cap EnrolledIn(was, last.id) # {}
        /\ \E id \in A \ EnrolledIn(was, last.id) :
             \E sc \in STUDENT_COURSE :
                sc.student_id = id /\ sc.course_id # last.id /\ sc.created_at < NOW

\* a list that names one element more than once
Repeats(list) == Cardinality(Elements(list)) < Len(list)

\* C31: a createStudent or updateStudent whose courseIds name one existing
\* course more than once, and an enrollStudents whose studentIds name one
\* existing student more than once, sent by a caller who may act and naming
\* nothing that does not exist, succeeds (201 for the create, 200 for the
\* other two) and leaves exactly one STUDENT_COURSE row for the pair.
C31_InputsAreSets ==
  /\ ( /\ last.op = "createStudent"
       /\ Repeats(last.body.courseIds)
       /\ \A id \in Elements(last.body.courseIds) :
            \E c \in last.before.COURSE : c.course_id = id
       /\ last.statusCode # 409 )
     => /\ last.statusCode = 201
        /\ \A id \in Elements(last.body.courseIds) :
             Cardinality(Links(STUDENT_COURSE, last.before.nextStudentId, id)) = 1
  /\ ( /\ last.op = "updateStudent" /\ last.body.hasCourseIds
       /\ Repeats(last.body.courseIds)
       /\ \A id \in Elements(last.body.courseIds) :
            \E c \in last.before.COURSE : c.course_id = id
       /\ \E st \in last.before.STUDENT :
            st.student_id = last.id /\ st.created_by = last.user )
     => /\ last.statusCode = 200
        /\ \A id \in Elements(last.body.courseIds) :
             Cardinality(Links(STUDENT_COURSE, last.id, id)) = 1
  /\ ( /\ last.op = "enrollStudents"
       /\ Repeats(last.body.studentIds)
       /\ \A id \in Elements(last.body.studentIds) :
            \E st \in last.before.STUDENT : st.student_id = id
       /\ \E c \in last.before.COURSE :
            c.course_id = last.id /\ c.instructor_id = last.user )
     => /\ last.statusCode = 200
        /\ \A id \in Elements(last.body.studentIds) :
             Cardinality(Links(STUDENT_COURSE, id, last.id)) = 1

\* the schedule entries that rows hold for a course
ScheduleOf(rows, courseId) ==
  {[day |-> e.day, start_time |-> e.start_time, end_time |-> e.end_time] :
     e \in {x \in rows : x.course_id = courseId}}

\* C32: after an updateCourse answered 200, the schedule entries of the
\* course are the entries of the payload's schedule when it is not empty,
\* none when it is an empty array, and the ones from before when the payload
\* has no schedule field; the schedule rows of every other course are the
\* ones from before.
C32_ScheduleReplaced ==
  (last.op = "updateCourse" /\ last.statusCode = 200)
  => /\ (last.body.hasSchedule /\ last.body.schedule # <<>>)
          => ScheduleOf(COURSE_SCHEDULE, last.id) = Elements(last.body.schedule)
     /\ (last.body.hasSchedule /\ last.body.schedule = <<>>)
          => ScheduleOf(COURSE_SCHEDULE, last.id) = {}
     /\ ~last.body.hasSchedule
          => ScheduleOf(COURSE_SCHEDULE, last.id)
               = ScheduleOf(last.before.COURSE_SCHEDULE, last.id)
     /\ {e \in COURSE_SCHEDULE : e.course_id # last.id}
          = {e \in last.before.COURSE_SCHEDULE : e.course_id # last.id}

\* a schedule of two entries replaces a stored schedule of one entry while
\* another course has a schedule
C32_Witness ==
  /\ last.op = "updateCourse" /\ last.statusCode = 200
  /\ last.body.hasSchedule /\ Len(last.body.schedule) = 2
  /\ ScheduleOf(last.before.COURSE_SCHEDULE, last.id) = {Monday9to10}
  /\ \E e \in COURSE_SCHEDULE : e.course_id # last.id

\* C33: a verifyCode succeeds only against a record that is not consumed,
\* and consumes it; sendVerificationCode (register, resendVerificationCode)
\* leaves every earlier record of the user consumed and one new record
\* open; a consumed record is never changed again.  As findActive... only
\* finds records that are not consumed, no later verifyCode succeeds against
\* a record that was verified once or that a resend has superseded.
C33_SingleUseAndSuperseded ==
  last.op # "none" =>
    LET was == last.before.USER_VERIFICATION
    IN /\ \A v \in was : v.consumed_at # Null => v \in USER_VERIFICATION
       /\ (last.op = "verifyEmail" /\ last.statusCode = 200) =>
            \E v \in was :
               /\ last.data = {v.verification_id}
               /\ v.consumed_at = Null /\ v.expires_at > NOW
               /\ bcrypt_compare(last.body.code, v.code_hash)
               /\ [v EXCEPT !.consumed_at = NOW] \in USER_VERIFICATION
       /\ (last.op \in {"register", "resendVerificationCode"}
             /\ last.statusCode = 200) =>
            \A u \in findUserByEmail(db, last.body.email) :
               /\ \A v \in was : v.user_id = u.user_id =>
                     \E w \in USER_VERIFICATION :
                        w.verification_id = v.verification_id /\ w.consumed_at # Null
               /\ Cardinality({w \in USER_VERIFICATION :
                                 w.user_id = u.user_id /\ w.consumed_at = Null}) = 1
               /\ \A w \in USER_VERIFICATION :
                     (w.user_id = u.user_id /\ w.consumed_at = Null) =>
                        /\ w.created_at = NOW
                        /\ \A v \in was : v.verification_id # w.verification_id

\* the code of a record that a resend has superseded is rejected while the
\* record of the resend, made for the other code, is open
C33_Witness ==
  /\ last.op = "verifyEmail" /\ last.statusCode # 200
  /\ \E u \in findUserByEmail(db, last.body.email) :
       \E v, w \in last.before.USER_VERIFICATION :
          /\ v.user_id = u.user_id /\ w.user_id = u.user_id
          /\ v.consumed_at # Null /\ v.expires_at > NOW
          /\ bcrypt_compare(last.body.code, v.code_hash)
          /\ w.consumed_at = Null /\ w.expires_at > NOW
          /\ ~bcrypt_compare(last.body.code, w.code_hash)
          /\ v.verification_id < w.verification_id

\* C34: an updateStudent that passes the validator, sent by a user who is
\* no admin, is answered 403 'You do not have permission to update this
\* student' when the student is not the user's, whatever createdBy it
\* carries; sent by the student's owner with a createdBy that names someone
\* else it is answered 403 'You cannot change the student owner. ...'; in
\* both cases every table is as before.
C34_OwnershipRulesInOrder ==
  ( /\ last.op = "updateStudent" /\ validateUpdateStudent(last.body)
    /\ ActorRole # "admin" )
  => \A st \in last.before.STUDENT :
        st.student_id = last.id =>
          IF st.created_by # last.user
            THEN /\ last.statusCode = 403
                 /\ last.message = "You do not have permission to update this student"
                 /\ TablesUnchanged
            ELSE last.body.createdBy \notin {Undefined, Null, st.created_by}
                 => /\ last.statusCode = 403
                    /\ last.message = "You cannot change the student owner. You can only update students you created."
                    /\ TablesUnchanged

\* the owner, an instructor, proposes another user as createdBy together
\* with a new student number
C34_Witness ==
  /\ last.op = "updateStudent" /\ last.statusCode = 403
  /\ ActorRole = "instructor"
  /\ last.body.createdBy \in UserIds \ {last.user}
  /\ \E st \in STUDENT :
       /\ st.student_id = last.id /\ st.created_by = last.user
       /\ last.body.studentNumber \notin {UndefinedStr, st.student_number}

\* C35: a request of a user who registered as instructor never changes or
\* deletes a student that is not this user's, whatever requests the user has
\* sent before, updateProfile on the own account included: no request of
\* the user makes the user an admin.
C35_NoSelfElevation ==
  ( /\ last.op # "none"
    /\ \E u \in Users0 : u.user_id = last.user /\ u.role = "instructor" )
  => /\ \A u \in USER : u.user_id = last.user => u.role # "admin"
     /\ \A st \in last.before.STUDENT :
          st.created_by # last.user => st \in STUDENT

\* C36: the student a createStudent answered 201 has inserted has the
\* authenticated user as created_by, whatever createdBy the body carries.
C36_CreatorIsActingPrincipal ==
  (last.op = "createStudent" /\ last.statusCode = 201)
  => \E st \in STUDENT :
        /\ st.student_id = last.id
        /\ st \notin last.before.STUDENT
        /\ st.created_by = last.user

\* C37: in every reachable state the created_by of each student and the
\* instructor_id of each course is the user_id of a row of USER.
C37_OwnersExist ==
  /\ \A st \in STUDENT : \E u \in USER : u.user_id = st.created_by
  /\ \A c \in COURSE : \E u \in USER : u.user_id = c.instructor_id

\* C38: while an updateCourse that carries a schedule and a deleteCourse of
\* the same course run one persistence call at a time, in any order, every
\* COURSE_SCHEDULE row names a course that exists; in particular when both
\* have answered.
C38_NoOrphanSchedule ==
  \A e \in COURSE_SCHEDULE : \E c \in COURSE : c.course_id = e.course_id

\* both have answered: the course was deleted between the update's DELETE of
\* the old entries and its INSERT, which the foreign key rejected
C38_Witness ==
  /\ Answered(1) /\ Answered(2)
  /\ calls[1].op = "updateCourse" /\ calls[1].statusCode = 500
  /\ calls[2].op = "deleteCourse" /\ calls[2].statusCode = 200
  /\ calls[1].id = calls[2].id
  /\ findCourseById(db, calls[1].id) = {}
  /\ \E e \in calls[1].before.COURSE_SCHEDULE : e.course_id = calls[1].id

\* the verifyCode calls that have compared a wrong code with the hash of
\* record v and have not counted it yet
Comparing(v) ==
  {cl \in Clients :
     /\ calls[cl] # NoCall /\ calls[cl].op = "verifyCode"
     /\ calls[cl].pc = "incrementAttemptCount"
     /\ calls[cl].row.verification_id = v.verification_id}

\* C39: for every verification record the wrong codes compared with its
\* hash, those counted in attempt_count and those whose call has not counted
\* yet, are at most maxAttempts, also when the calls of two clients overlap.
C39_AttemptLimitUnderConcurrency ==
  \A v \in USER_VERIFICATION :
     v.attempt_count + Cardinality(Comparing(v)) <= maxAttempts
====
